---- MODULE Spec2Model ----
(***************************************************************************)
(* A model of the simd-doc transcoder (crates/simd-doc/src/ffi/simd-doc.hpp)*)
(* of estuary/flow: Parser::transcode walks each document of a newline      *)
(* delimited JSON stream depth first and appends one archived record per    *)
(* document to an output buffer.  Bytes are modelled as 0..255, a pword as  *)
(* 8 bytes (little endian), a pnode as 16 bytes and a pfield as 24 bytes.   *)
(* 32-bit arithmetic is done on 4-byte little-endian sequences, because the *)
(* values (one's complements, negative relative offsets) need all 32 bits.  *)
(***************************************************************************)
EXTENDS Integers, Sequences, FiniteSets, TLC

VARIABLES
    pc,         \* position of Parser::transcode: idle, loop, walk, root, step, done, error
    err,        \* the error thrown ("" while none)
    input,      \* the input slice: [docs, badSep, tail]
    docIdx,     \* number of documents the stream iterator has stepped past
    data,       \* buf.data[0 .. buf.len): Len(data) is buf.len
    cap,        \* buf.cap (the capacity of the backing Transcoded)
    ffiLen,     \* the length of the backing Transcoded as its owner sees it
    bufPool,    \* buf.pool: idle scratch buffers during the call
    parserPool, \* Parser::pool
    stack,      \* active transcode_array / transcode_object frames, innermost last
    root,       \* the pnode returned for the document's root element
    startLen,   \* start_len of the current document
    initLen,    \* output.len() when transcode was called
    initPool,   \* the number of buffers in Parser::pool when transcode was called
    ties,       \* the order this build's std::sort gave to each sequence of keys sorted
    inOffset,   \* Parser::parse: the offset argument
    heapNode,   \* Parser::parse: the HeapNode the caller passed, built in place
    heap,       \* Parser::parse: the active parse_node calls, outermost first
    sink,       \* Parser::parse: what complete has recorded in the Parsed output
    ops,        \* the pbuffer operations of the call so far, each with buf.len after it
    made,       \* the number of scratch vectors there have been; a vector's id is its rank
    deepest,    \* the largest number of transcode_array/_object calls active at once
    entry       \* the entry point that was called: "transcode" or "parse"

vars == <<pc, err, input, docIdx, data, cap, ffiLen, bufPool, parserPool,
          stack, root, startLen, initLen, initPool, ties, inOffset, heapNode, heap, sink, ops,
          made, deepest, entry>>

-----------------------------------------------------------------------------
(* Bounds of the model. *)

\* Largest number of children of an enumerated array or object.
MaxItems == 2
\* Largest number of documents of an enumerated multi-document input.
MaxDocs == 2
\* Extra capacity a reserve() of the backing buffer may hand out.
Room == 64

-----------------------------------------------------------------------------
(* Bytes and 32-bit words. *)

Max(a, b) == IF a < b THEN b ELSE a

\* n copies of byte b.
Fill(n, b) == [i \in 1..n |-> b]

\* s[from .. from+n-1] (1-based), n >= 0.
Slice(s, from, n) == [i \in 1..n |-> s[from + i - 1]]

\* s with bytes w written at 1-based position at.
Poke(s, at, w) ==
    [i \in 1..Len(s) |-> IF i >= at /\ i < at + Len(w) THEN w[i - at + 1] ELSE s[i]]

\* static_cast<uint32_t>(n) of 0 <= n < 2^31, as 4 little-endian bytes.
U32(n) == <<n % 256, (n \div 256) % 256, (n \div 65536) % 256, (n \div 16777216) % 256>>

\* ~w of a uint32_t.
Not32(w) == <<255 - w[1], 255 - w[2], 255 - w[3], 255 - w[4]>>

\* w - n modulo 2^32, for a uint32_t w and 0 <= n < 2^31.
Sub32(w, n) ==
    LET lo     == w[1] + 256 * w[2] + 65536 * w[3]
        d      == lo - (n % 16777216)
        borrow == IF d < 0 THEN 1 ELSE 0
        rlo    == d + borrow * 16777216
        rhi    == (w[4] + 512 - (n \div 16777216) - borrow) % 256
    IN  <<rlo % 256, (rlo \div 256) % 256, rlo \div 65536, rhi>>

\* The value of a uint32_t whose top bit is clear.
Val32(w) == w[1] + 256 * w[2] + 65536 * w[3] + 16777216 * w[4]

\* A uint32_t read as an int32_t.
I32(w) ==
    IF w[4] >= 128
    THEN (w[1] + 256 * w[2] + 65536 * w[3] + 16777216 * (w[4] - 128)) - 2147483647 - 1
    ELSE Val32(w)

\* An int64_t of small magnitude as 8 little-endian bytes (two's complement).
I64(v) ==
    IF v >= 0 THEN U32(v) \o <<0, 0, 0, 0>>
    ELSE Not32(U32(-v - 1)) \o <<255, 255, 255, 255>>

\* std::string_view operator< : lexicographic comparison of unsigned bytes.
RECURSIVE LexLess(_, _)
LexLess(a, b) ==
    IF b = <<>> THEN FALSE
    ELSE IF a = <<>> THEN TRUE
    ELSE IF a[1] # b[1] THEN a[1] < b[1]
    ELSE LexLess(Tail(a), Tail(b))

LexLeq(a, b) == ~LexLess(b, a)

-----------------------------------------------------------------------------
(* String descriptors (simd-doc.hpp 91-127). *)

\* The largest child count is 0xfffffe: sizes from 0xffffff on are refused.
TooLarge == 16777215

\* Strings shorter than this are stored inline.
InlineLimit == 9

is_indirect_str(w) == (w[1] \div 64) = 2

encode_indirect_str_length(len) == U32((len % 64) + 128 + (len \div 64) * 256)

decode_indirect_str_length(w) == (w[1] % 64) + 64 * (w[2] + 256 * w[3] + 65536 * w[4])

\* Number of 0xFF bytes at the top of the word, which is countl_zero(~value) / 8.
RECURSIVE TopOnes(_, _)
TopOnes(word, k) ==
    IF k = 0 \/ word[k] # 255 THEN 0 ELSE 1 + TopOnes(word, k - 1)

decode_inline_str_length(word) == 8 - TopOnes(word, 8)

-----------------------------------------------------------------------------
(* The input: what the tokenizer (simdjson's dom::document_stream) yields.   *)
(* A dom::element is a record: t its element_type, and its payload.  An      *)
(* element of type "bigarr"/"bigobj" is an array/object of size children     *)
(* (all null), too many to enumerate; "bad" is a document the tokenizer      *)
(* rejects, in its stage 1 over the whole input (invalid UTF-8, an unescaped *)
(* control character) or in stage 2 when the document is reached.            *)

JNull     == [t |-> "null"]
JBool(b)   == [t |-> "bool", b |-> b]
JInt(n)    == [t |-> "int", n |-> n]
\* A UINT64 above INT64_MAX and a DOUBLE: the 8 bytes of the value, and the
\* number of characters of its JSON text.
JUInt(w, n) == [t |-> "uint", w |-> w, len |-> n]
JDbl(w, n)  == [t |-> "dbl", w |-> w, len |-> n]
JStr(s)    == [t |-> "str", s |-> s]
JArr(xs)   == [t |-> "arr", items |-> xs]
JObj(fs)   == [t |-> "obj", fields |-> fs]
Fld(k, x) == [key |-> k, value |-> x]
JBigArr(n) == [t |-> "bigarr", size |-> n]
JBigObj(n) == [t |-> "bigobj", size |-> n]
JBad(n, stage) == [t |-> "bad", len |-> n, stage |-> stage]

IsArray(e)  == e.t \in {"arr", "bigarr"}
IsObject(e) == e.t \in {"obj", "bigobj"}
IsString(e) == e.t = "str"
IsScalar(e) == e.t \in {"null", "bool", "int", "uint", "dbl"}

\* dom::array::size() / dom::object::size(): the tape holds the count in 24
\* bits, and a larger count is stored as 0xFFFFFF.
Size(e) ==
    IF e.t = "arr" THEN Len(e.items)
    ELSE IF e.t = "obj" THEN Len(e.fields)
    ELSE IF e.size > 16777215 THEN 16777215 ELSE e.size

RECURSIVE Digits(_)
Digits(n) == IF n < 10 THEN 1 ELSE 1 + Digits(n \div 10)

RECURSIVE SumSeq(_)
SumSeq(s) == IF s = <<>> THEN 0 ELSE s[1] + SumSeq(Tail(s))

\* Number of bytes of the compact JSON text of an element.
RECURSIVE TextLen(_)
TextLen(e) ==
    CASE e.t = "null" -> 4
      [] e.t = "bool" -> IF e.b THEN 4 ELSE 5
      [] e.t = "int" -> IF e.n < 0 THEN 1 + Digits(-e.n) ELSE Digits(e.n)
      [] e.t \in {"uint", "dbl", "bad"} -> e.len
      [] e.t = "str" -> Len(e.s) + 2
      [] e.t = "arr" ->
            2 + SumSeq([i \in 1..Len(e.items) |-> TextLen(e.items[i])])
              + Max(Len(e.items) - 1, 0)
      [] e.t = "obj" ->
            2 + SumSeq([i \in 1..Len(e.fields) |->
                          Len(e.fields[i].key) + 3 + TextLen(e.fields[i].value)])
              + Max(Len(e.fields) - 1, 0)
      [] e.t = "bigarr" -> 1 + 5 * e.size
      [] OTHER -> 1 + 8 * e.size

\* The separator byte after a document: '\n', or ' ' where the newline is missing.
NL == 10

\* The number of input bytes up to and including the separator of document k.
RECURSIVE EndOf(_, _)
EndOf(in, k) ==
    IF k = 0 THEN 0 ELSE EndOf(in, k - 1) + TextLen(in.docs[k]) + 1

\* input.size(): the documents, their separators, and a truncated tail.
InputSize(in) == EndOf(in, Len(in.docs)) + Len(in.tail)

\* stream.truncated_bytes(), a size_t as its 8 bytes: the number of bytes of
\* an incomplete document at the end of the input.  For the empty input the
\* tokenizer computes it from structural indexes it never wrote, and the
\* value is whatever the parser's memory holds: any size_t.
truncated_bytes(in) ==
    IF InputSize(in) = 0
    THEN [1..8 -> 0..255]
    ELSE {U32(Len(in.tail)) \o U32(0)}

\* stream.truncated_bytes() != 0 (525, 570): the values the test can have.
truncated_bytes_nonzero(in) ==
    {b \in BOOLEAN : \E t \in truncated_bytes(in) : (t # U32(0) \o U32(0)) = b}

\* A current_index that counts from the start of the document just read.
current_index_of_document(in, k) == IF k = 0 THEN 0 ELSE TextLen(in.docs[k]) + 1

\* it.current_index() once the iterator has stepped past k documents: the
\* start of the next document, and past the last complete document the end
\* of the input, a truncated tail included.
current_index(in, k) ==
    IF k = 0 THEN 0
    ELSE IF k = Len(in.docs) THEN InputSize(in)
    ELSE EndOf(in, k)

\* input.data()[it.current_index() - 1] after stepping past document k: the
\* byte that follows the document (a space where the newline is missing),
\* or past the last complete document the last byte of a truncated tail.
SepOf(in, k) ==
    IF k = Len(in.docs) /\ in.tail # <<>> THEN in.tail[Len(in.tail)]
    ELSE IF in.badSep = k THEN 32 ELSE NL

\* The tokenizer rejects the input in stage 1, which runs over the whole
\* input before the first document is handed out.
RejectedInStage1(in) ==
    \E k \in 1..Len(in.docs) : in.docs[k].t = "bad" /\ in.docs[k].stage = 1

-----------------------------------------------------------------------------
(* pbuffer (simd-doc.hpp 52-89).  A state s is a record of the variables.    *)

\* pbuffer::extend<T> of the bytes b of elements of T, sizeofT bytes each: one
\* outcome per capacity reserve() may give.  Growing first tells the owner
\* the current length (ffi->set_len).
extend(s, b, sizeofT) ==
    LET r == [s EXCEPT !.data = s.data \o b,
                       !.ops = Append(s.ops, [op |-> "extend", size |-> sizeofT,
                                              n |-> Len(b),
                                              len |-> Len(s.data) + Len(b)])]
    IN  IF Len(s.data) + Len(b) > s.cap
        THEN { [r EXCEPT !.ffiLen = Len(s.data), !.cap = c]
               : c \in {Len(s.data) + Len(b), Len(s.data) + Len(b) + Room} }
        ELSE { r }

\* A pad that appends nothing.
pad_skipped(s) == {s}

\* pbuffer::pad: zeros up to the next multiple of 8.
pad(s) ==
    { [q EXCEPT !.ops = Append(q.ops, [op |-> "pad", size |-> 1,
                                       n |-> Len(q.data) - Len(s.data),
                                       len |-> Len(q.data)])]
      : q \in extend(s, Fill((8 - (Len(s.data) % 8)) % 8, 0), 1) }

-----------------------------------------------------------------------------
(* Offset resolution and placement (simd-doc.hpp 129-196). *)

\* A pstr_resolve that leaves the placeholder of an indirect string in place.
pstr_resolve_unresolved(p1, p2, offset) == p2

\* pstr_resolve: the new value of p2.
pstr_resolve(p1, p2, offset) ==
    IF is_indirect_str(p1) THEN Sub32(Not32(p2), offset) ELSE p2

\* A pnode_resolve that counts every offset from the node's first byte.
pnode_resolve_from_base(n, offset) ==
    CASE n[1] = 0 \/ n[1] = 6 -> Poke(n, 9, Sub32(Slice(n, 9, 4), offset))
      [] n[1] = 8 -> Poke(n, 9, pstr_resolve(Slice(n, 5, 4), Slice(n, 9, 4), offset))
      [] OTHER -> n

\* pnode_resolve of the 16-byte node n placed at offset.
pnode_resolve(n, offset) ==
    CASE n[1] = 0 \/ n[1] = 6 -> Poke(n, 9, Sub32(Slice(n, 9, 4), offset + 8))
      [] n[1] = 8 -> Poke(n, 9, pstr_resolve(Slice(n, 5, 4), Slice(n, 9, 4), offset + 4))
      [] OTHER -> n

\* A pfield resolution that counts a key's offset from the key's offset field.
pfield_resolve_key_from_offset_field(f, offset) ==
    Slice(f, 1, 4)
      \o pstr_resolve(Slice(f, 1, 4), Slice(f, 5, 4), offset + 4)
      \o pnode_resolve(Slice(f, 9, 16), offset + 8)

\* The pfield f placed at offset, resolved as place_object's loop does.
pfield_resolve(f, offset) ==
    Slice(f, 1, 4)
      \o pstr_resolve(Slice(f, 1, 4), Slice(f, 5, 4), offset)
      \o pnode_resolve(Slice(f, 9, 16), offset + 8)

\* The node of an array or object: tag, tape length, placement offset, count.
CompositeNode(tag, tape_length, offset, len) ==
    <<tag, 0, 0, 0>> \o U32(tape_length) \o U32(offset) \o U32(len)

\* The first len items of scratch memory d, each resolved at its place.
ResolveNodes(d, len, offset) ==
    [j \in 1..Len(d) |->
        IF j <= 16 * len
        THEN pnode_resolve(Slice(d, 16 * ((j - 1) \div 16) + 1, 16),
                           offset + 16 * ((j - 1) \div 16))[((j - 1) % 16) + 1]
        ELSE d[j]]

ResolveFields(d, len, offset) ==
    [j \in 1..Len(d) |->
        IF j <= 24 * len
        THEN pfield_resolve(Slice(d, 24 * ((j - 1) \div 24) + 1, 24),
                            offset + 24 * ((j - 1) \div 24))[((j - 1) % 24) + 1]
        ELSE d[j]]

\* place_array: pads, resolves d in place and appends it.  Each outcome is the
\* state after, the scratch memory after, and the node returned.
place_array(s, d, len, tape_length) ==
    UNION { LET offset == Len(p.data)
                r      == ResolveNodes(d, len, offset)
            IN  { [st |-> q, mem |-> r,
                   node |-> CompositeNode(0, tape_length, offset, len)]
                  : q \in extend(p, Slice(r, 1, 16 * len), 16) }
            : p \in pad(s) }

place_object(s, d, len, tape_length) ==
    UNION { LET offset == Len(p.data)
                r      == ResolveFields(d, len, offset)
            IN  { [st |-> q, mem |-> r,
                   node |-> CompositeNode(6, tape_length, offset, len)]
                  : q \in extend(p, Slice(r, 1, 24 * len), 24) }
            : p \in pad(s) }

-----------------------------------------------------------------------------
(* sort_pfields (simd-doc.hpp 237-256). *)

\* The lambda view: the bytes a property word w denotes, read through buf.data.
view(s, w) ==
    IF is_indirect_str(Slice(w, 1, 4))
    THEN Slice(s.data, Val32(Not32(Slice(w, 5, 4))) + 1,
               decode_indirect_str_length(Slice(w, 1, 4)))
    ELSE Slice(w, 1, decode_inline_str_length(w))

\* The orders of 1..n.
Orders(n) == {p \in [1..n -> 1..n] : \A i, j \in 1..n : i # j => p[i] # p[j]}

\* A sort_pfields that leaves the fields as they are.
sort_pfields_skipped(s, d, len) == {[mem |-> d, ties |-> s.ties]}

\* std::sort orders the fields by the comparator.  It promises nothing about
\* fields whose keys compare equal: any order sorted by key is an outcome.
\* But the sort is a function of the keys it is given, so the order this
\* build gave to a sequence of keys (kept in ties) is the order it gives to
\* that sequence again.
sort_pfields(s, d, len) ==
    LET key(k) == view(s, Slice(d, 24 * (k - 1) + 1, 8))
        keys   == [k \in 1..len |-> key(k)]
        known  == {m \in s.ties : m.keys = keys}
        sorted == {p \in Orders(len) :
                     /\ \A i \in 1..(len - 1) : ~LexLess(key(p[i + 1]), key(p[i]))
                     /\ \A m \in known : m.order = p}
    IN  { [mem |-> [j \in 1..Len(d) |->
                     IF j <= 24 * len
                     THEN d[24 * (p[((j - 1) \div 24) + 1] - 1) + ((j - 1) % 24) + 1]
                     ELSE d[j]],
           ties |-> s.ties \cup {[keys |-> keys, order |-> p]}]
          : p \in sorted }

-----------------------------------------------------------------------------
(* transcode_node on scalars and strings (simd-doc.hpp 325-402). *)

Zero8 == <<0, 0, 0, 0, 0, 0, 0, 0>>

\* The pnode of an INT64, UINT64, DOUBLE, BOOL or null element.
ScalarNode(e) ==
    CASE e.t = "int" ->
           IF e.n < 0 THEN <<4, 0, 0, 0, 0, 0, 0, 0>> \o I64(e.n)
           ELSE <<7, 0, 0, 0, 0, 0, 0, 0>> \o I64(e.n)
      [] e.t = "uint" -> <<7, 0, 0, 0, 0, 0, 0, 0>> \o e.w
      [] e.t = "dbl" -> <<3, 0, 0, 0, 0, 0, 0, 0>> \o e.w
      [] e.t = "bool" ->
           IF e.b THEN <<1, 1, 0, 0, 0, 0, 0, 0>> \o Zero8
           ELSE <<1, 0, 0, 0, 0, 0, 0, 0>> \o Zero8
      [] OTHER -> <<5, 0, 0, 0, 0, 0, 0, 0>> \o Zero8

\* A threshold one byte lower: strings of 8 bytes are stored indirect.
StoresInline_below_8(len) == len < InlineLimit - 1

\* Whether a string of len bytes is stored inline.
StoresInline(len) == len < InlineLimit

\* An inline pnode whose unused string bytes are left zero.
InlineStringNode_zero_padded(str) ==
    <<8, 0, 0, 0>> \o str \o Fill(8 - Len(str), 0) \o <<0, 0, 0, 0>>

\* The inline pnode: w1 = {0x08, 0xFFFFFFFF}, w2 = {0xFFFFFFFF, 0}, then the
\* string copied over w1.h onwards.
InlineStringNode(str) ==
    <<8, 0, 0, 0>> \o str \o Fill(8 - Len(str), 255) \o <<0, 0, 0, 0>>

\* An indirect pnode that takes the buffer length after the string is written.
IndirectStringNode_after_extend(len, at) ==
    <<8, 0, 0, 0>> \o encode_indirect_str_length(len) \o Not32(U32(at + len))
      \o <<0, 0, 0, 0>>

\* The indirect pnode of a string of len bytes written at buffer length at.
IndirectStringNode(len, at) ==
    <<8, 0, 0, 0>> \o encode_indirect_str_length(len) \o Not32(U32(at)) \o <<0, 0, 0, 0>>

\* The property word of an object key (simd-doc.hpp 291-306).
InlineProperty(key) == key \o Fill(8 - Len(key), 255)
IndirectProperty(len, at) == encode_indirect_str_length(len) \o Not32(U32(at))

-----------------------------------------------------------------------------
(* The recursion of transcode_node, as a stack of frames.  A frame is one    *)
(* running transcode_array or transcode_object: its element, the number i of *)
(* children done, its scratch memory (bytes; -1 where never written),        *)
(* built_length, unsorted, last_key, and whether the key of child i has      *)
(* been handled.                                                             *)

Top(s) == s.stack[Len(s.stack)]

\* The element transcode_node is about to be called on.
Cur(s) ==
    IF s.stack = <<>> THEN s.input.docs[s.docIdx + 1]
    ELSE IF Top(s).kind = "arr" THEN Top(s).elem.items[Top(s).i + 1]
    ELSE Top(s).elem.fields[Top(s).i + 1].value

\* transcode_node is about to be called: on the root, on the next array item,
\* or on the value of the field whose key has been handled.
Ready(s) ==
    /\ s.pc = "walk"
    /\ \/ s.stack = <<>>
       \/ /\ Top(s).i < Size(Top(s).elem)
          /\ Top(s).kind = "arr" \/ Top(s).keyed

\* An exception leaves transcode: the frames' scratch vectors and buf (with
\* its pool) are destroyed, and nothing after the throw runs.
Throw(s, e) ==
    [s EXCEPT !.pc = "error", !.err = e, !.stack = <<>>, !.bufPool = <<>>]

\* A caller that adds 1 to built_length for each child, whatever its delta.
Deliver_counting_children(s, node, delta) ==
    IF s.stack = <<>> THEN [s EXCEPT !.root = node, !.pc = "root"]
    ELSE LET n == Len(s.stack)
             f == s.stack[n]
             at == IF f.kind = "arr" THEN 16 * f.i + 1 ELSE 24 * f.i + 9
         IN  [s EXCEPT !.stack[n] =
                 [f EXCEPT !.scratch = Poke(f.scratch, at, node),
                           !.i = f.i + 1,
                           !.built = f.built + 1,
                           !.keyed = FALSE]]

\* A caller that stores only the first word of the node, leaving the second
\* word of the scratch slot as the memory held it.
Deliver_storing_first_word(s, node, delta) ==
    IF s.stack = <<>> THEN [s EXCEPT !.root = node, !.pc = "root"]
    ELSE LET n == Len(s.stack)
             f == s.stack[n]
             at == IF f.kind = "arr" THEN 16 * f.i + 1 ELSE 24 * f.i + 9
         IN  [s EXCEPT !.stack[n] =
                 [f EXCEPT !.scratch = Poke(f.scratch, at, Slice(node, 1, 8)),
                           !.i = f.i + 1,
                           !.built = f.built + delta,
                           !.keyed = FALSE]]

\* transcode_node returns (node, delta) to its caller, which stores the node
\* in its scratch and adds delta to built_length (227-228, 309-311, 552).
Deliver(s, node, delta) ==
    IF s.stack = <<>> THEN [s EXCEPT !.root = node, !.pc = "root"]
    ELSE LET n == Len(s.stack)
             f == s.stack[n]
             at == IF f.kind = "arr" THEN 16 * f.i + 1 ELSE 24 * f.i + 9
         IN  [s EXCEPT !.stack[n] =
                 [f EXCEPT !.scratch = Poke(f.scratch, at, node),
                           !.i = f.i + 1,
                           !.built = f.built + delta,
                           !.keyed = FALSE]]

\* std::vector::reserve on a vector of size 0: a larger block is fresh memory.
Reserve(mem, words) == IF 8 * words > Len(mem) THEN Fill(8 * words, -1) ELSE mem

\* A frame that takes the pool's last vector and leaves it in the pool.
Enter_without_pop(s, e, kind, words) ==
    LET n   == Len(s.bufPool)
        vec == IF n = 0 THEN [id |-> s.made + 1, mem |-> <<>>] ELSE s.bufPool[n]
    IN  [s EXCEPT !.made = IF n = 0 THEN s.made + 1 ELSE s.made,
                  !.deepest = Max(s.deepest, Len(s.stack) + 1),
                  !.stack = Append(s.stack,
                      [kind |-> kind, elem |-> e, i |-> 0, vec |-> vec.id,
                       scratch |-> Reserve(vec.mem, words), built |-> 1,
                       unsorted |-> 0, last_key |-> <<>>, keyed |-> FALSE])]

\* A new frame for element e: its scratch is a new vector, swapped with the
\* pool's last one if there is one, which is popped.
Enter(s, e, kind, words) ==
    LET n   == Len(s.bufPool)
        vec == IF n = 0 THEN [id |-> s.made + 1, mem |-> <<>>] ELSE s.bufPool[n]
    IN  [s EXCEPT !.bufPool = IF n = 0 THEN <<>> ELSE SubSeq(s.bufPool, 1, n - 1),
                  !.made = IF n = 0 THEN s.made + 1 ELSE s.made,
                  !.deepest = Max(s.deepest, Len(s.stack) + 1),
                  !.stack = Append(s.stack,
                      [kind |-> kind, elem |-> e, i |-> 0, vec |-> vec.id,
                       scratch |-> Reserve(vec.mem, words), built |-> 1,
                       unsorted |-> 0, last_key |-> <<>>, keyed |-> FALSE])]

\* The frame returns: its scratch goes back to the pool, the node to the caller.
Leave(s, mem, node, built) ==
    Deliver([s EXCEPT !.stack = SubSeq(s.stack, 1, Len(s.stack) - 1),
                      !.bufPool = Append(s.bufPool, [id |-> Top(s).vec, mem |-> mem])],
            node, built)

-----------------------------------------------------------------------------
(* The steps of Parser::transcode, each as the set of its outcomes. *)

\* 533-542: buf is set up over the output and takes the Parser's pool.
BeginNext(s) ==
    IF s.pc = "idle"
    THEN {[s EXCEPT !.pc = "loop", !.bufPool = s.parserPool, !.parserPool = <<>>]}
    ELSE {}

\* 544-551: another document: the header placeholder, start_len, and *it,
\* which throws the tokenizer's error.
DocStartNext(s) ==
    IF s.pc = "loop" /\ s.docIdx < Len(s.input.docs)
    THEN { LET r == [q EXCEPT !.startLen = Len(q.data)]
           IN  IF RejectedInStage1(s.input) \/ s.input.docs[s.docIdx + 1].t = "bad"
               THEN Throw(r, "TokenizerError")
               ELSE [r EXCEPT !.pc = "walk"]
           : q \in extend(s, Zero8, 8) }
    ELSE {}

\* 337-356, 388-401: a scalar.
TranscodeScalarNext(s) ==
    IF Ready(s) /\ IsScalar(Cur(s))
    THEN {Deliver(s, ScalarNode(Cur(s)), 1)}
    ELSE {}

\* 357-387: a string, inline or written to the buffer now.
TranscodeStringNext(s) ==
    IF Ready(s) /\ IsString(Cur(s))
    THEN LET str == Cur(s).s
         IN  IF StoresInline(Len(str))
             THEN {Deliver(s, InlineStringNode(str), 1)}
             ELSE {Deliver(q, IndirectStringNode(Len(str), Len(s.data)), 1)
                   : q \in extend(s, str, 1)}
    ELSE {}

\* 203-223: transcode_array up to its loop.
ArrayEnterNext(s) ==
    IF Ready(s) /\ IsArray(Cur(s))
    THEN IF Size(Cur(s)) >= TooLarge
         THEN {Throw(s, "CompositeTooLarge")}
         ELSE {Enter(s, Cur(s), "arr", 2 * Size(Cur(s)))}
    ELSE {}

\* 259-282: transcode_object up to its loop.
ObjectEnterNext(s) ==
    IF Ready(s) /\ IsObject(Cur(s))
    THEN IF Size(Cur(s)) >= TooLarge
         THEN {Throw(s, "CompositeTooLarge")}
         ELSE {Enter(s, Cur(s), "obj", 3 * Size(Cur(s)))}
    ELSE {}

\* 284-306: the key of the next field.
ObjectKeyNext(s) ==
    IF s.pc = "walk" /\ s.stack # <<>> /\ Top(s).kind = "obj"
       /\ Top(s).i < Size(Top(s).elem) /\ ~Top(s).keyed
    THEN LET n   == Len(s.stack)
             f   == s.stack[n]
             key == f.elem.fields[f.i + 1].key
             g(prop) ==
                 [f EXCEPT !.unsorted = f.unsorted + (IF LexLeq(key, f.last_key) THEN 1 ELSE 0),
                           !.last_key = key,
                           !.scratch = Poke(f.scratch, 24 * f.i + 1, prop),
                           !.keyed = TRUE]
         IN  IF StoresInline(Len(key))
             THEN {[s EXCEPT !.stack[n] = g(InlineProperty(key))]}
             ELSE {[q EXCEPT !.stack[n] = g(IndirectProperty(Len(key), Len(s.data)))]
                   : q \in extend(s, key, 1)}
    ELSE {}

\* 230-233: the array's items are placed and the frame returns.
ArrayExitNext(s) ==
    IF s.pc = "walk" /\ s.stack # <<>> /\ Top(s).kind = "arr"
       /\ Top(s).i = Size(Top(s).elem)
    THEN {Leave(r.st, r.mem, r.node, Top(s).built)
          : r \in place_array(s, Top(s).scratch, Top(s).i, Top(s).built)}
    ELSE {}

\* 314-322: the fields are sorted if need be and placed, and the frame returns.
ObjectExitNext(s) ==
    IF s.pc = "walk" /\ s.stack # <<>> /\ Top(s).kind = "obj"
       /\ Top(s).i = Size(Top(s).elem)
    THEN LET f == Top(s)
             sorted == IF f.unsorted # 0 THEN sort_pfields(s, f.scratch, f.i)
                       ELSE {[mem |-> f.scratch, ties |-> s.ties]}
         IN  UNION { {Leave(r.st, r.mem, r.node, f.built)
                      : r \in place_object([s EXCEPT !.ties = x.ties], x.mem,
                                           f.i, f.built)}
                     : x \in sorted }
    ELSE {}

\* 553: place_array(buf, &root, 1, 0).
RootPlaceNext(s) ==
    IF s.pc = "root"
    THEN {[r.st EXCEPT !.pc = "step", !.root = r.mem]
          : r \in place_array(s, s.root, 1, 0)}
    ELSE {}

\* A step that counts the header's own 8 bytes in the body length.
DocEndNext_counting_header(s) ==
    IF s.pc = "step"
    THEN LET k == s.docIdx + 1
         IN  IF SepOf(s.input, k) # NL
             THEN {Throw(s, "MalformedFraming")}
             ELSE {[s EXCEPT !.docIdx = k, !.pc = "loop",
                             !.data = Poke(s.data, s.startLen - 8 + 1,
                                           U32(current_index(s.input, k))
                                             \o U32(Len(s.data) - s.startLen + 8))]}
    ELSE {}

\* 555-564: ++it, the newline check, and the header.
DocEndNext(s) ==
    IF s.pc = "step"
    THEN LET k == s.docIdx + 1
         IN  IF SepOf(s.input, k) # NL
             THEN {Throw(s, "MalformedFraming")}
             ELSE {[s EXCEPT !.docIdx = k, !.pc = "loop",
                             !.data = Poke(s.data, s.startLen - 8 + 1,
                                           U32(current_index(s.input, k))
                                             \o U32(Len(s.data) - s.startLen))]}
    ELSE {}

\* A last step that throws when truncated_bytes() is zero.
FinishNext_when_not_truncated(s) ==
    IF s.pc = "loop" /\ s.docIdx = Len(s.input.docs)
    THEN LET r == [s EXCEPT !.ffiLen = Len(s.data),
                            !.parserPool = s.bufPool, !.bufPool = <<>>]
         IN  { IF ~nz /\ InputSize(s.input) # 0
               THEN [r EXCEPT !.pc = "error", !.err = "TrailingGarbage"]
               ELSE [r EXCEPT !.pc = "done"]
               : nz \in truncated_bytes_nonzero(s.input) }
    ELSE {}

\* 567-573: after the last document.
FinishNext(s) ==
    IF s.pc = "loop" /\ s.docIdx = Len(s.input.docs)
    THEN LET r == [s EXCEPT !.ffiLen = Len(s.data),
                            !.parserPool = s.bufPool, !.bufPool = <<>>]
         IN  { IF nz /\ InputSize(s.input) # 0
               THEN [r EXCEPT !.pc = "error", !.err = "TrailingGarbage"]
               ELSE [r EXCEPT !.pc = "done"]
               : nz \in truncated_bytes_nonzero(s.input) }
    ELSE {}

-----------------------------------------------------------------------------
(* The inputs and the initial output buffers and pools the model runs on. *)

S_empty == <<>>
S_a     == <<97>>
S_b     == <<98>>
S_hi    == <<104, 105>>
S_8     == <<97, 98, 99, 100, 101, 102, 103, 104>>
S_9     == S_8 \o <<105>>
S_9j    == S_8 \o <<106>>
S_u     == <<195, 169>>
S_16    == S_8 \o S_8

\* Sequences over S of at most n elements.
SeqsUpTo(S, n) == UNION {[1..k -> S] : k \in 0..n}

Leaves ==
    {JNull, JBool(TRUE), JBool(FALSE), JInt(-1), JInt(42),
     JUInt(<<0, 0, 0, 0, 0, 0, 0, 128>>, 19), JDbl(<<0, 0, 0, 0, 0, 0, 248, 63>>, 3),
     JStr(S_empty), JStr(S_hi), JStr(S_8), JStr(S_9), JStr(S_u)}

Arrays == {JArr(xs) : xs \in SeqsUpTo({JInt(1), JBool(TRUE), JStr(S_9)}, MaxItems)}

Objects ==
    {JObj(fs) : fs \in SeqsUpTo({Fld(k, x) : k \in {S_empty, S_a, S_b, S_9},
                                             x \in {JInt(1), JInt(2)}}, MaxItems)}

\* Nested composites, long and multi-byte keys, long values after long keys.
Nested ==
    {JArr(<<JArr(<<>>)>>),
     JArr(<<JObj(<<>>), JStr(S_9)>>),
     JArr(<<JInt(1), JArr(<<JStr(S_9), JInt(2)>>)>>),
     JArr(<<JArr(<<JArr(<<JInt(1)>>)>>), JStr(S_9j)>>),
     JObj(<<Fld(S_b, JArr(<<JInt(1)>>)), Fld(S_a, JObj(<<Fld(S_a, JStr(S_9))>>))>>),
     JObj(<<Fld(S_a, JObj(<<Fld(S_b, JInt(1)), Fld(S_a, JInt(2))>>)), Fld(S_a, JInt(3))>>),
     JObj(<<Fld(S_9, JStr(S_9j)), Fld(S_a, JInt(1))>>),
     JObj(<<Fld(S_9j, JInt(1)), Fld(S_9, JInt(2))>>),
     JObj(<<Fld(S_9, JInt(1)), Fld(S_8, JInt(2))>>),
     JObj(<<Fld(S_u, JInt(1)), Fld(S_hi, JStr(S_u))>>),
     JObj(<<Fld(S_9, JStr(S_16))>>),
     JArr(<<JStr(S_9), JStr(S_16), JStr(S_16)>>)}

\* Composites of 0xffffff and of 2^24 children, at the root and nested.
Huge ==
    {JBigArr(TooLarge), JBigObj(TooLarge + 1),
     JArr(<<JStr(S_9), JBigArr(TooLarge + 1)>>),
     JObj(<<Fld(S_9, JArr(<<JBigObj(TooLarge)>>))>>)}

\* The documents of multi-document inputs.
StreamDocs ==
    {JBool(TRUE), JStr(S_9), JArr(<<JInt(1), JStr(S_9)>>),
     JObj(<<Fld(S_b, JInt(1)), Fld(S_a, JInt(2))>>),
     JBigArr(TooLarge), JBad(2, 1), JBad(2, 2)}

Streams == SeqsUpTo(StreamDocs, MaxDocs)

\* The bytes of a truncated document at the end of the input: [1, and [1
\* followed by a newline.
Tails == {<<91, 49, 44>>, <<91, 49, 10>>}

\* An input: its documents, the document whose newline is missing (0: none),
\* and the bytes of a truncated document after the last one.
Inputs ==
    {[docs |-> <<d>>, badSep |-> 0, tail |-> <<>>]
        : d \in Leaves \cup Arrays \cup Objects \cup Nested \cup Huge}
    \cup UNION {{[docs |-> ds, badSep |-> b, tail |-> <<>>] : b \in 0..Len(ds)}
                : ds \in Streams}
    \cup {[docs |-> ds, badSep |-> 0, tail |-> tl] : ds \in Streams, tl \in Tails}

\* The output buffer and the Parser's pool at the call: a new Parser and an
\* empty buffer; or a buffer with a record's worth of bytes and room to spare,
\* and a pool left by earlier calls (scratch memory holding stale words).
Configs ==
    {[data |-> <<>>, cap |-> 0, pool |-> <<>>],
     [data |-> Fill(8, 238), cap |-> 8 + 16 * Room, pool |-> <<[id |-> 1, mem |-> Fill(16, 90)]>>]}

-----------------------------------------------------------------------------
(* The state machine. *)

St == [pc |-> pc, err |-> err, input |-> input, docIdx |-> docIdx, data |-> data,
       cap |-> cap, ffiLen |-> ffiLen, bufPool |-> bufPool, parserPool |-> parserPool,
       stack |-> stack, root |-> root, startLen |-> startLen, initLen |-> initLen,
       initPool |-> initPool, ties |-> ties, offset |-> inOffset, node |-> heapNode,
       heap |-> heap, sink |-> sink, ops |-> ops, made |-> made, deepest |-> deepest,
       entry |-> entry]

Become(t) ==
    /\ pc' = t.pc /\ err' = t.err /\ input' = t.input /\ docIdx' = t.docIdx
    /\ data' = t.data /\ cap' = t.cap /\ ffiLen' = t.ffiLen /\ bufPool' = t.bufPool
    /\ parserPool' = t.parserPool /\ stack' = t.stack /\ root' = t.root
    /\ startLen' = t.startLen /\ initLen' = t.initLen /\ initPool' = t.initPool
    /\ ties' = t.ties
    /\ inOffset' = t.offset
    /\ heapNode' = t.node
    /\ heap' = t.heap
    /\ sink' = t.sink
    /\ ops' = t.ops
    /\ made' = t.made
    /\ deepest' = t.deepest
    /\ entry' = t.entry

\* The state in which transcode is called on input in with configuration c.
Start(in, c, b) ==
    [pc |-> "idle", err |-> "", input |-> in, docIdx |-> 0, data |-> c.data,
     cap |-> c.cap, ffiLen |-> Len(c.data), bufPool |-> <<>>, parserPool |-> c.pool,
     stack |-> <<>>, root |-> <<>>, startLen |-> 0, initLen |-> Len(c.data),
     initPool |-> Len(c.pool), ties |-> b, offset |-> 0, node |-> JNull,
     heap |-> <<>>, sink |-> <<>>, ops |-> <<>>, made |-> Len(c.pool), deepest |-> 0,
     entry |-> "transcode"]

Init ==
    \E in \in Inputs, c \in Configs :
        LET t == Start(in, c, {})
        IN  /\ pc = t.pc /\ err = t.err /\ input = t.input /\ docIdx = t.docIdx
            /\ data = t.data /\ cap = t.cap /\ ffiLen = t.ffiLen /\ bufPool = t.bufPool
            /\ parserPool = t.parserPool /\ stack = t.stack /\ root = t.root
            /\ startLen = t.startLen /\ initLen = t.initLen /\ initPool = t.initPool
            /\ ties = t.ties
            /\ inOffset = t.offset /\ heapNode = t.node /\ heap = t.heap /\ sink = t.sink /\ ops = t.ops
            /\ made = t.made /\ deepest = t.deepest /\ entry = t.entry

Begin           == \E t \in BeginNext(St) : Become(t)
DocStart        == \E t \in DocStartNext(St) : Become(t)
TranscodeScalar == \E t \in TranscodeScalarNext(St) : Become(t)
TranscodeString == \E t \in TranscodeStringNext(St) : Become(t)
ArrayEnter      == \E t \in ArrayEnterNext(St) : Become(t)
ObjectEnter     == \E t \in ObjectEnterNext(St) : Become(t)
ObjectKey       == \E t \in ObjectKeyNext(St) : Become(t)
ArrayExit       == \E t \in ArrayExitNext(St) : Become(t)
ObjectExit      == \E t \in ObjectExitNext(St) : Become(t)
RootPlace       == \E t \in RootPlaceNext(St) : Become(t)
DocEnd          == \E t \in DocEndNext(St) : Become(t)
Finish          == \E t \in FinishNext(St) : Become(t)

Next ==
    \/ Begin
    \/ DocStart
    \/ TranscodeScalar
    \/ TranscodeString
    \/ ArrayEnter
    \/ ObjectEnter
    \/ ObjectKey
    \/ ArrayExit
    \/ ObjectExit
    \/ RootPlace
    \/ DocEnd
    \/ Finish

Spec == Init /\ [][Next]_vars

-----------------------------------------------------------------------------
(* The heap path: Parser::parse and parse_node (simd-doc.hpp 406-529).  The   *)
(* tree is built in place in the caller's HeapNode through the allocator's   *)
(* operations; a place in the tree is the sequence of child indexes that     *)
(* leads to it from the root.                                                *)

\* The node at a place of a tree.
RECURSIVE GetAt(_, _)
GetAt(tree, path) ==
    IF path = <<>> THEN tree
    ELSE IF tree.t = "arr" THEN GetAt(tree.items[path[1]], Tail(path))
    ELSE GetAt(tree.fields[path[1]].value, Tail(path))

\* The tree with the node at a place replaced by v.
RECURSIVE PutAt(_, _, _)
PutAt(tree, path, v) ==
    IF path = <<>> THEN v
    ELSE IF tree.t = "arr"
    THEN [tree EXCEPT !.items[path[1]] = PutAt(@, Tail(path), v)]
    ELSE [tree EXCEPT !.fields[path[1]].value = PutAt(@, Tail(path), v)]

\* set_array and set_object: the node becomes an array or object of size
\* children, and its tape length, which built_length points to, starts at 1.
set_array(tree, path, size) ==
    PutAt(tree, path, [t |-> "arr", items |-> [i \in 1..size |-> JNull], tape |-> 1])

set_object(tree, path, size) ==
    PutAt(tree, path, [t |-> "obj", tape |-> 1,
                       fields |-> [i \in 1..size |-> [key |-> <<>>, value |-> JNull]]])

\* set_field: the key is stored in field k of the object at a place.
set_field(tree, path, k, key) ==
    PutAt(tree, path, [GetAt(tree, path) EXCEPT !.fields[k].key = key])

\* *built_length += n, for the array or object at a place.
AddBuilt(tree, path, n) ==
    PutAt(tree, path, [GetAt(tree, path) EXCEPT !.tape = @ + n])

\* sort_heap_fields reorders the fields of the object at a place by key.
sort_heap_fields(tree, path) ==
    LET obj == GetAt(tree, path)
        len == Len(obj.fields)
    IN  { PutAt(tree, path, [obj EXCEPT !.fields = [i \in 1..len |-> obj.fields[p[i]]]])
          : p \in {q \in Orders(len) :
                     \A i \in 1..(len - 1) :
                        LexLeq(obj.fields[q[i]].key, obj.fields[q[i + 1]].key)} }

\* complete: the sink records the root and the input offset of the document's end.
complete(s, end) == [s EXCEPT !.sink = Append(s.sink, [root |-> s.node, end |-> end])]

HeapTop(s) == s.heap[Len(s.heap)]

\* The element parse_node is about to be called on, and the place of its node.
HeapCur(s) ==
    IF s.heap = <<>> THEN s.input.docs[s.docIdx + 1]
    ELSE IF HeapTop(s).kind = "arr" THEN HeapTop(s).elem.items[HeapTop(s).i + 1]
    ELSE HeapTop(s).elem.fields[HeapTop(s).i + 1].value

HeapPlace(s) ==
    IF s.heap = <<>> THEN <<>> ELSE Append(HeapTop(s).path, HeapTop(s).i + 1)

\* parse_node is about to be called: on the root, on the next array item, or
\* on the value of the field whose key has been set.
HeapReady(s) ==
    /\ s.pc = "walk"
    /\ \/ s.heap = <<>>
       \/ /\ HeapTop(s).i < Size(HeapTop(s).elem)
          /\ HeapTop(s).kind = "arr" \/ HeapTop(s).keyed

\* An exception leaves parse: nothing after the throw runs.
ParseThrow(s, e) == [s EXCEPT !.pc = "error", !.err = e, !.heap = <<>>]

\* parse_node returns n: its caller adds it to *built_length (425, 454), and
\* Parser::parse goes on to step the iterator (514-516).
HeapReturn(s, n) ==
    IF s.heap = <<>> THEN [s EXCEPT !.pc = "step"]
    ELSE LET k == Len(s.heap)
             f == s.heap[k]
         IN  [s EXCEPT !.node = AddBuilt(s.node, f.path, n),
                       !.heap[k] = [f EXCEPT !.i = f.i + 1, !.keyed = FALSE]]

HeapEnter(s, kind) ==
    [s EXCEPT !.heap = Append(s.heap,
                 [kind |-> kind, elem |-> HeapCur(s), i |-> 0, path |-> HeapPlace(s),
                  unsorted |-> 0, last_key |-> <<>>, keyed |-> FALSE])]

\* 509: the document stream over the input.
ParseBeginNext(s) ==
    IF s.pc = "idle" THEN {[s EXCEPT !.pc = "loop"]} ELSE {}

\* 511-514: another document: *it, which throws the tokenizer's error.
ParseDocStartNext(s) ==
    IF s.pc = "loop" /\ s.docIdx < Len(s.input.docs)
    THEN IF RejectedInStage1(s.input) \/ s.input.docs[s.docIdx + 1].t = "bad"
         THEN {ParseThrow(s, "TokenizerError")}
         ELSE {[s EXCEPT !.pc = "walk"]}
    ELSE {}

\* 464-485: a number, a string, a boolean or null is set and counts 1.
ParseLeafNext(s) ==
    IF HeapReady(s) /\ (IsScalar(HeapCur(s)) \/ IsString(HeapCur(s)))
    THEN {HeapReturn([s EXCEPT !.node = PutAt(s.node, HeapPlace(s), HeapCur(s))], 1)}
    ELSE {}

\* 410-421: an array, up to its loop.
ParseArrayEnterNext(s) ==
    IF HeapReady(s) /\ IsArray(HeapCur(s))
    THEN IF Size(HeapCur(s)) >= TooLarge
         THEN {ParseThrow(s, "CompositeTooLarge")}
         ELSE {HeapEnter([s EXCEPT !.node = set_array(s.node, HeapPlace(s),
                                                       Size(HeapCur(s)))], "arr")}
    ELSE {}

\* 429-444: an object, up to its loop.
ParseObjectEnterNext(s) ==
    IF HeapReady(s) /\ IsObject(HeapCur(s))
    THEN IF Size(HeapCur(s)) >= TooLarge
         THEN {ParseThrow(s, "CompositeTooLarge")}
         ELSE {HeapEnter([s EXCEPT !.node = set_object(s.node, HeapPlace(s),
                                                        Size(HeapCur(s)))], "obj")}
    ELSE {}

\* 446-452: the key of the next field.
ParseFieldNext(s) ==
    IF s.pc = "walk" /\ s.heap # <<>> /\ HeapTop(s).kind = "obj"
       /\ HeapTop(s).i < Size(HeapTop(s).elem) /\ ~HeapTop(s).keyed
    THEN LET k   == Len(s.heap)
             f   == s.heap[k]
             key == f.elem.fields[f.i + 1].key
         IN  {[s EXCEPT !.node = set_field(s.node, f.path, f.i + 1, key),
                        !.heap[k] =
                           [f EXCEPT !.unsorted = f.unsorted
                                        + (IF LexLeq(key, f.last_key) THEN 1 ELSE 0),
                                     !.last_key = key,
                                     !.keyed = TRUE]]}
    ELSE {}

\* 423-427: the array's loop is over; its tape length is returned.
ParseArrayExitNext(s) ==
    IF s.pc = "walk" /\ s.heap # <<>> /\ HeapTop(s).kind = "arr"
       /\ HeapTop(s).i = Size(HeapTop(s).elem)
    THEN {HeapReturn([s EXCEPT !.heap = SubSeq(s.heap, 1, Len(s.heap) - 1)],
                     GetAt(s.node, HeapTop(s).path).tape)}
    ELSE {}

\* 457-462: the fields are sorted if need be; the tape length is returned.
ParseObjectExitNext(s) ==
    IF s.pc = "walk" /\ s.heap # <<>> /\ HeapTop(s).kind = "obj"
       /\ HeapTop(s).i = Size(HeapTop(s).elem)
    THEN LET f == HeapTop(s)
             trees == IF f.unsorted # 0 THEN sort_heap_fields(s.node, f.path)
                      ELSE {s.node}
         IN  {HeapReturn([s EXCEPT !.node = tr,
                                   !.heap = SubSeq(s.heap, 1, Len(s.heap) - 1)],
                         GetAt(tr, f.path).tape)
              : tr \in trees}
    ELSE {}

\* A step that hands the document to the sink before it checks the newline.
ParseDocEndNext_completing_first(s) ==
    IF s.pc = "step"
    THEN LET k == s.docIdx + 1
             r == complete(s, s.offset + current_index(s.input, k))
         IN  IF SepOf(s.input, k) # NL
             THEN {ParseThrow(r, "MalformedFraming")}
             ELSE {[r EXCEPT !.docIdx = k, !.pc = "loop"]}
    ELSE {}

\* 516-522: ++it, the newline check, and complete.
ParseDocEndNext(s) ==
    IF s.pc = "step"
    THEN LET k == s.docIdx + 1
         IN  IF SepOf(s.input, k) # NL
             THEN {ParseThrow(s, "MalformedFraming")}
             ELSE {[complete(s, s.offset + current_index(s.input, k))
                       EXCEPT !.docIdx = k, !.pc = "loop"]}
    ELSE {}

\* 511, 525-528: the stream is at its end.
ParseFinishNext(s) ==
    IF s.pc = "loop" /\ s.docIdx = Len(s.input.docs)
    THEN { IF nz /\ InputSize(s.input) # 0
           THEN ParseThrow(s, "TrailingGarbage")
           ELSE [s EXCEPT !.pc = "done"]
           : nz \in truncated_bytes_nonzero(s.input) }
    ELSE {}

\* The offset of the input in the caller's stream.
Offsets == {0, 1000}

\* A call of parse: the caller's HeapNode is null and its sink is empty.
ParseInit ==
    \E in \in Inputs, o \in Offsets :
        LET t == Start(in, [data |-> <<>>, cap |-> 0, pool |-> <<>>], {})
        IN  /\ pc = t.pc /\ err = t.err /\ input = t.input /\ docIdx = t.docIdx
            /\ data = t.data /\ cap = t.cap /\ ffiLen = t.ffiLen /\ bufPool = t.bufPool
            /\ parserPool = t.parserPool /\ stack = t.stack /\ root = t.root
            /\ startLen = t.startLen /\ initLen = t.initLen /\ initPool = t.initPool
            /\ ties = t.ties
            /\ inOffset = o /\ heapNode = t.node /\ heap = t.heap /\ sink = t.sink /\ ops = t.ops
            /\ made = t.made /\ deepest = t.deepest /\ entry = "parse"

ParseBegin       == \E t \in ParseBeginNext(St) : Become(t)
ParseDocStart    == \E t \in ParseDocStartNext(St) : Become(t)
ParseLeaf        == \E t \in ParseLeafNext(St) : Become(t)
ParseArrayEnter  == \E t \in ParseArrayEnterNext(St) : Become(t)
ParseObjectEnter == \E t \in ParseObjectEnterNext(St) : Become(t)
ParseField       == \E t \in ParseFieldNext(St) : Become(t)
ParseArrayExit   == \E t \in ParseArrayExitNext(St) : Become(t)
ParseObjectExit  == \E t \in ParseObjectExitNext(St) : Become(t)
ParseDocEnd      == \E t \in ParseDocEndNext(St) : Become(t)
ParseFinish      == \E t \in ParseFinishNext(St) : Become(t)

ParseNext ==
    \/ ParseBegin
    \/ ParseDocStart
    \/ ParseLeaf
    \/ ParseArrayEnter
    \/ ParseObjectEnter
    \/ ParseField
    \/ ParseArrayExit
    \/ ParseObjectExit
    \/ ParseDocEnd
    \/ ParseFinish

ParseSpec == ParseInit /\ [][ParseNext]_vars

-----------------------------------------------------------------------------
(* A call of either entry point of the Parser: transcode or parse.           *)

CallInit == Init \/ ParseInit

CallNext ==
    \/ entry = "transcode" /\ Next
    \/ entry = "parse" /\ ParseNext

CallSpec == CallInit /\ [][CallNext]_vars

-----------------------------------------------------------------------------
(* Every run of transcode from a state, for comparing one call with another. *)

Successors(s) ==
    BeginNext(s) \cup DocStartNext(s) \cup TranscodeScalarNext(s)
      \cup TranscodeStringNext(s) \cup ArrayEnterNext(s) \cup ObjectEnterNext(s)
      \cup ObjectKeyNext(s) \cup ArrayExitNext(s) \cup ObjectExitNext(s)
      \cup RootPlaceNext(s) \cup DocEndNext(s) \cup FinishNext(s)

\* The states in which a call that is in state s can end.
RECURSIVE Outcomes(_)
Outcomes(s) ==
    IF s.pc \in {"done", "error"} THEN {s}
    ELSE UNION {Outcomes(t) : t \in Successors(s)}

\* The bytes a call appended to the output.
Appended(s) == Slice(s.data, s.initLen + 1, Len(s.data) - s.initLen)

\* What transcode can append for the single newline-terminated document d,
\* called with an empty output buffer that never needs to grow.
Alone(d) ==
    {Appended(t) : t \in {u \in Outcomes(Start([docs |-> <<d>>, badSep |-> 0, tail |-> <<>>],
                                               [data |-> <<>>, cap |-> 16 * Room,
                                                pool |-> <<>>], ties)) : u.pc = "done"}}

-----------------------------------------------------------------------------
(* A reader of the archive (spec section 6).  Positions are byte offsets     *)
(* into the output, from 0.  strRef is where the back-offset of an indirect  *)
(* string counts from, relative to the start of its descriptor (the length   *)
(* word): 0 for the descriptor itself, 4 for the offset field after it.      *)
(* Array and object offsets count from their offset field, node + 8.         *)

InRange(d, at, n) == at >= 0 /\ n >= 0 /\ at + n <= Len(d)

\* The string a descriptor at position at denotes: its bytes, whether it is
\* indirect, its first byte, and for an indirect one the stored offset and the
\* position it leads to.
ReadString(d, at, strRef) ==
    LET lo == Slice(d, at + 1, 4)
        hi == Slice(d, at + 5, 4)
    IN  IF is_indirect_str(lo)
        THEN LET n == decode_indirect_str_length(lo)
                 P == at + strRef + I32(hi)
             IN  [s |-> IF InRange(d, P, n) THEN Slice(d, P + 1, n) ELSE <<-1>>,
                  ind |-> TRUE, b0 |-> lo[1], off |-> I32(hi), at |-> at, P |-> P, n |-> n]
        ELSE [s |-> Slice(d, at + 1, decode_inline_str_length(Slice(d, at + 1, 8))),
              ind |-> FALSE, b0 |-> lo[1], off |-> 0, at |-> at, P |-> at,
              n |-> decode_inline_str_length(Slice(d, at + 1, 8))]

\* The int64_t of 8 bytes, where it is of small magnitude.
FromI64(w) ==
    IF w[8] >= 128 THEN -Val32(Not32(Slice(w, 1, 4))) - 1 ELSE Val32(Slice(w, 1, 4))

SmallI64(w) ==
    \/ Slice(w, 5, 4) = <<0, 0, 0, 0>> /\ w[4] < 128
    \/ Slice(w, 5, 4) = <<255, 255, 255, 255>> /\ w[4] >= 128

\* The value of the node at position at.  A composite carries its position,
\* stored tape length, stored offset and the position of its child region.
RECURSIVE ReadNode(_, _, _, _)
ReadNode(d, at, strRef, fuel) ==
    IF fuel = 0 \/ ~InRange(d, at, 16) THEN [t |-> "invalid", tag |-> -1, off |-> 0]
    ELSE
    LET tag   == d[at + 1]
        w2    == Slice(d, at + 9, 8)
        tape  == Slice(d, at + 5, 4)
        off   == I32(Slice(d, at + 9, 4))
        count == Slice(d, at + 13, 4)
        P     == at + 8 + off
        n     == IF count[4] < 128 THEN Val32(count) ELSE -1
    IN  CASE tag = 5 -> JNull
          [] tag = 1 -> JBool(d[at + 2] = 1)
          [] tag \in {4, 7} /\ SmallI64(w2) -> JInt(FromI64(w2))
          [] tag = 7 -> [t |-> "uint", w |-> w2]
          [] tag = 4 -> [t |-> "nint", w |-> w2]
          [] tag = 3 -> [t |-> "dbl", w |-> w2]
          [] tag = 8 -> [t |-> "str", str |-> ReadString(d, at + 4, strRef)]
          [] tag = 0 /\ InRange(d, P, 16 * n) ->
                [t |-> "arr", at |-> at, tape |-> tape, off |-> off, P |-> P,
                 items |-> [i \in 1..n |-> ReadNode(d, P + 16 * (i - 1), strRef, fuel - 1)]]
          [] tag = 6 /\ InRange(d, P, 24 * n) ->
                [t |-> "obj", at |-> at, tape |-> tape, off |-> off, P |-> P,
                 fields |-> [i \in 1..n |->
                    [key |-> ReadString(d, P + 24 * (i - 1), strRef),
                     value |-> ReadNode(d, P + 24 * (i - 1) + 8, strRef, fuel - 1)]]]
          [] OTHER -> [t |-> "invalid", tag |-> tag, off |-> off]

\* The record whose header is at position H: the header's two halves, and the
\* root node, which is the last 16 bytes of the body.
ReadRecord(d, H, strRef) ==
    LET lo == Slice(d, H + 1, 4)
        hi == Slice(d, H + 5, 4)
        n  == IF hi[4] < 128 THEN Val32(hi) ELSE -1
    IN  [lo |-> lo, hi |-> hi, body |-> H + 8,
         root |-> IF n >= 16 /\ InRange(d, H + 8, n)
                  THEN ReadNode(d, H + 8 + n - 16, strRef, 8)
                  ELSE [t |-> "invalid", tag |-> -1, off |-> 0]]

\* The record of the document transcode completed last.
LastRecord(strRef) == ReadRecord(data, startLen - 8, strRef)

\* A document has just been completed (its header is written).
Completed == pc = "loop" /\ docIdx > 0

LastDoc == input.docs[docIdx]

\* Whether the value v read from an archive is the element e, with the fields
\* of every object taken in some order in which their keys ascend.
RECURSIVE Matches(_, _)
Matches(e, v) ==
    CASE e.t \in {"null", "bool", "int"} -> v.t = e.t /\ v = e
      [] e.t \in {"uint", "dbl"} -> v = [t |-> e.t, w |-> e.w]
      [] e.t = "str" -> v.t = "str" /\ v.str.s = e.s
      [] e.t = "arr" ->
            /\ v.t = "arr" /\ Len(v.items) = Len(e.items)
            /\ \A i \in 1..Len(e.items) : Matches(e.items[i], v.items[i])
      [] e.t = "obj" ->
            /\ v.t = "obj" /\ Len(v.fields) = Len(e.fields)
            /\ \A i \in 1..(Len(v.fields) - 1) :
                  LexLeq(v.fields[i].key.s, v.fields[i + 1].key.s)
            /\ \E p \in Orders(Len(e.fields)) :
                  \A i \in 1..Len(e.fields) :
                     /\ v.fields[i].key.s = e.fields[p[i]].key
                     /\ Matches(e.fields[p[i]].value, v.fields[i].value)
      [] OTHER -> FALSE

-----------------------------------------------------------------------------
(* C1: round trip. *)

\* C1 (as amended): reading the record of a completed document, with every
\* array and object back-offset followed from its offset field (node + 8) and
\* every indirect string back-offset followed from the start of its string
\* descriptor (node + 4 for a value, the field's start for a key), yields the
\* document, the fields of each object in an order sorted by key.
C1_RoundTrip == Completed => Matches(LastDoc, LastRecord(0).root)

\* C1 as stated: every back-offset, those of indirect strings included, is
\* followed from the position of its own offset field.
C1_RoundTripFromOffsetField == Completed => Matches(LastDoc, LastRecord(4).root)

\* An unsorted object with a long key and a long value has been transcoded and
\* reads back with its keys in sorted order.
C1_Witness ==
    /\ Completed
    /\ LastDoc = JObj(<<Fld(S_9, JStr(S_9j)), Fld(S_a, JInt(1))>>)
    /\ LastRecord(0).root.t = "obj"
    /\ LastRecord(0).root.fields[1].key.s = S_a
    /\ LastRecord(0).root.fields[2].key.s = S_9
    /\ LastRecord(0).root.fields[2].value.str.s = S_9j

-----------------------------------------------------------------------------
(* C2: framing of a concatenated input. *)

\* The record x with n added to the low half of its header.
ShiftLo(x, n) == Poke(x, 1, U32(Val32(Slice(x, 1, 4)) + n))

\* The outputs made of one record per document of ds, each as transcode
\* appends it for that document alone, with the low half of its header raised
\* by shift(before), before being the length of the input text preceding the
\* document.
RECURSIVE Framed(_, _, _)
Framed(ds, before, shifted) ==
    IF ds = <<>> THEN {<<>>}
    ELSE {ShiftLo(x, IF shifted THEN before ELSE 0) \o y :
            x \in Alone(Head(ds)),
            y \in Framed(Tail(ds), before + TextLen(Head(ds)) + 1, shifted)}

TwoOrMoreDone == pc = "done" /\ Len(input.docs) >= 2

\* C2 (as amended): for newline-terminated documents a and b (and any longer
\* sequence), the bytes appended by transcode of their concatenation are the
\* bytes appended by transcode(a) followed by those appended by transcode(b),
\* except that the low half of the header of each later record is greater by
\* the length of the input text that precedes its document.
C2_FramingShifted == TwoOrMoreDone => Appended(St) \in Framed(input.docs, 0, TRUE)

\* C2 as stated: the appended bytes are the plain concatenation, headers
\* included.
C2_FramingPlain == TwoOrMoreDone => Appended(St) \in Framed(input.docs, 0, FALSE)

\* An array with a long string and then an unsorted object were transcoded in
\* one call into a buffer that already held bytes; the second header counts
\* the input from the start of the first document.
C2_Witness ==
    /\ pc = "done"
    /\ input.docs = <<JArr(<<JInt(1), JStr(S_9)>>),
                      JObj(<<Fld(S_b, JInt(1)), Fld(S_a, JInt(2))>>)>>
    /\ initLen > 0
    /\ Appended(St) \in Framed(input.docs, 0, TRUE)
    /\ Appended(St) \notin Framed(input.docs, 0, FALSE)

-----------------------------------------------------------------------------
(* C3: the output's length after an error. *)

\* The archive offset at which the record of the failing document began: the
\* header placeholder of the document being transcoded, or for input left
\* over after the last document, the end of the last record.
FailingRecordStart == IF err = "TrailingGarbage" THEN Len(data) ELSE startLen - 8

\* C3: whenever transcode raises an error, the length of the output that the
\* caller sees (the last value given to set_len, or the length at the call)
\* is the archive offset at which the failing document's record began.
C3_LengthAfterError == pc = "error" => ffiLen = FailingRecordStart

-----------------------------------------------------------------------------
(* C4: every stored offset is negative. *)

\* The stored offsets of the value v read from an archive, as signed 32-bit
\* integers: of each array and object node, of each indirect string node and
\* of each indirect key.
RECURSIVE OffsetsOf(_)
OffsetsOf(v) ==
    CASE v.t = "str" -> IF v.str.ind THEN {v.str.off} ELSE {}
      [] v.t = "arr" ->
            {v.off} \cup UNION {OffsetsOf(v.items[i]) : i \in 1..Len(v.items)}
      [] v.t = "obj" ->
            {v.off} \cup UNION {(IF v.fields[i].key.ind THEN {v.fields[i].key.off} ELSE {})
                                  \cup OffsetsOf(v.fields[i].value)
                                : i \in 1..Len(v.fields)}
      [] v.t = "invalid" -> IF v.tag \in {0, 6} THEN {v.off} ELSE {}
      [] OTHER -> {}

\* C4: in the record of every completed document, every stored offset field
\* (array and object nodes, the root and empty composites included, indirect
\* string nodes, indirect keys) is strictly negative as a signed 32-bit
\* integer, hence non-zero.
C4_OffsetsNegative == Completed => \A o \in OffsetsOf(LastRecord(0).root) : o < 0

\* An array holding one empty array has been transcoded: the inner node
\* refers to an empty region 8 bytes before its offset field, the root to the
\* region of the inner node.
C4_Witness ==
    /\ Completed
    /\ LastDoc = JArr(<<JArr(<<>>)>>)
    /\ LastRecord(0).root.t = "arr"
    /\ LastRecord(0).root.off = -24
    /\ LastRecord(0).root.items[1].t = "arr"
    /\ LastRecord(0).root.items[1].off = -8

-----------------------------------------------------------------------------
(* C5: offset resolution at placement. *)

\* The indirect string descriptor w (8 bytes), held in scratch with the
\* placeholder ~P, is stored as m at position D and there refers to P - D
\* bytes away, where the bytes str were written; an inline one is unchanged.
StringPlaced(w, m, D, str, d) ==
    IF is_indirect_str(Slice(w, 1, 4))
    THEN LET P == Val32(Not32(Slice(w, 5, 4)))
         IN  /\ Slice(m, 1, 4) = Slice(w, 1, 4)
             /\ I32(Slice(m, 5, 4)) = P - D
             /\ InRange(d, P, Len(str)) /\ Slice(d, P + 1, Len(str)) = str
    ELSE m = w

\* The node n of element e, held in scratch, is stored as m at position base.
NodePlaced(n, m, base, e, d) ==
    CASE n[1] \in {0, 6} ->
            /\ Slice(m, 1, 8) = Slice(n, 1, 8) /\ Slice(m, 13, 4) = Slice(n, 13, 4)
            /\ I32(Slice(m, 9, 4)) = Val32(Slice(n, 9, 4)) - (base + 8)
      [] n[1] = 8 ->
            /\ Slice(m, 1, 4) = Slice(n, 1, 4)
            /\ StringPlaced(Slice(n, 5, 8), Slice(m, 5, 8), base + 4, e.s, d)
            /\ Slice(m, 13, 4) = Slice(n, 13, 4)
      [] OTHER -> m = n

\* The len nodes of scratch memory mem are the last len nodes of d.
NodesPlaced(mem, len, es, d) ==
    LET R == Len(d) - 16 * len
    IN  /\ R >= 0 /\ R % 8 = 0
        /\ \A i \in 1..len :
              NodePlaced(Slice(mem, 16 * (i - 1) + 1, 16), Slice(d, R + 16 * (i - 1) + 1, 16),
                         R + 16 * (i - 1), es[i], d)

\* The len fields of scratch memory mem are, in some order, the last len
\* fields of d.
FieldsPlaced(mem, len, fs, d) ==
    LET R == Len(d) - 24 * len
    IN  /\ R >= 0 /\ R % 8 = 0
        /\ \E p \in Orders(len) : \A i \in 1..len :
              LET f    == Slice(mem, 24 * (p[i] - 1) + 1, 24)
                  m    == Slice(d, R + 24 * (i - 1) + 1, 24)
                  base == R + 24 * (i - 1)
              IN  /\ StringPlaced(Slice(f, 1, 8), Slice(m, 1, 8), base, fs[p[i]].key, d)
                  /\ NodePlaced(Slice(f, 9, 16), Slice(m, 9, 16), base + 8,
                                fs[p[i]].value, d)

\* place_array or place_object is about to run on a finished frame.
AtArrayExit  == pc = "walk" /\ stack # <<>> /\ Top(St).kind = "arr"
                  /\ Top(St).i = Size(Top(St).elem)
AtObjectExit == pc = "walk" /\ stack # <<>> /\ Top(St).kind = "obj"
                  /\ Top(St).i = Size(Top(St).elem)

PlacementStep ==
    /\ AtArrayExit => NodesPlaced(Top(St).scratch, Top(St).i, Top(St).elem.items, data')
    /\ AtObjectExit => FieldsPlaced(Top(St).scratch, Top(St).i, Top(St).elem.fields, data')
    /\ pc = "root" => NodesPlaced(root, 1, <<input.docs[docIdx + 1]>>, data')

\* C5: whenever a child region is placed (an array's, an object's, or the
\* root), each child that refers to data written at position P is stored
\* with the signed 32-bit offset P - D, D being node base + 8 for an array or
\* object child, node base + 4 for an indirect string child and the field base
\* for an indirect key; every other byte of the children is stored unchanged.
C5_OffsetResolution == [][PlacementStep]_vars

\* The fields of an object with a long key and a long value have been placed
\* at position 32 of an empty buffer, the key "a" first: the long key, written
\* at 8, is stored in the field at 56 with offset -48, and the long value,
\* written at 17, in the descriptor at 68 with offset -51.
C5_Witness ==
    /\ pc = "root" /\ initLen = 0
    /\ input.docs[docIdx + 1] = JObj(<<Fld(S_9, JStr(S_9j)), Fld(S_a, JInt(1))>>)
    /\ Len(data) = 80
    /\ ReadString(data, 56, 0).ind /\ ReadString(data, 56, 0).off = -48
    /\ ReadString(data, 56, 0).s = S_9
    /\ ReadString(data, 68, 0).ind /\ ReadString(data, 68, 0).off = -51
    /\ ReadString(data, 68, 0).s = S_9j

-----------------------------------------------------------------------------
(* C6: records are self-contained, children before parents. *)

\* A stored string descriptor's reference: the payload's position and length,
\* and the base of the node or field that holds the descriptor.
StringRef(str, base) ==
    IF str.ind THEN {[P |-> str.P, n |-> str.n, B |-> base]} ELSE {}

\* The references of the value v read from an archive: for each stored offset
\* the position P and length n of the data referred to (a child region or a
\* string payload) and the base B of the node or field holding the offset.
RECURSIVE RefsOf(_)
RefsOf(v) ==
    CASE v.t = "str" -> StringRef(v.str, v.str.at - 4)
      [] v.t = "arr" ->
            {[P |-> v.P, n |-> 16 * Len(v.items), B |-> v.at]}
              \cup UNION {RefsOf(v.items[i]) : i \in 1..Len(v.items)}
      [] v.t = "obj" ->
            {[P |-> v.P, n |-> 24 * Len(v.fields), B |-> v.at]}
              \cup UNION {StringRef(v.fields[i].key, v.fields[i].key.at)
                            \cup RefsOf(v.fields[i].value) : i \in 1..Len(v.fields)}
      [] v.t = "invalid" ->
            IF v.tag \in {0, 6} THEN {[P |-> -1, n |-> 0, B |-> -1]} ELSE {}
      [] OTHER -> {}

\* C6: in the record of every completed document, the data referred to by any
\* stored offset (a child region or an indirect string payload) lies within
\* the record's body, after its header, and ends at or before the first byte
\* of the node or field that refers to it: every byte referred to is at a
\* strictly lower position than its referrer, which itself is in the body.
C6_SelfContained ==
    Completed =>
        LET rec == LastRecord(0)
        IN  \A r \in RefsOf(rec.root) :
               /\ rec.body <= r.P
               /\ r.P + r.n <= r.B
               /\ r.B + 16 <= rec.body + Val32(rec.hi)
               /\ rec.body + Val32(rec.hi) = Len(data)

\* The second record of a call: an array whose region (at 72 of the output)
\* holds an integer and a long string, after a record of a long string.  The
\* payload of the array's string lies in the second record's body, at 56.
C6_Witness ==
    /\ Completed /\ docIdx = 2 /\ initLen = 8
    /\ input.docs = <<JStr(S_9), JArr(<<JInt(1), JStr(S_9)>>)>>
    /\ LastRecord(0).body = 56
    /\ [P |-> 56, n |-> 9, B |-> 88] \in RefsOf(LastRecord(0).root)
    /\ [P |-> 72, n |-> 32, B |-> 104] \in RefsOf(LastRecord(0).root)

-----------------------------------------------------------------------------
(* C7: the keys of a stored object ascend. *)

\* The keys of the fields fs of a source object are pairwise different.
DistinctKeys(fs) == \A i, j \in 1..Len(fs) : i # j => fs[i].key # fs[j].key

\* The stored keys of the object v: non-decreasing, or strictly ascending.
KeysAscend(v, strictly) ==
    \A i \in 1..(Len(v.fields) - 1) :
        IF strictly THEN LexLess(v.fields[i].key.s, v.fields[i + 1].key.s)
        ELSE LexLeq(v.fields[i].key.s, v.fields[i + 1].key.s)

\* Every object node of v, read from the record of element e, has its keys in
\* non-decreasing order, and in strictly ascending order where the source
\* object has no duplicate key (always == FALSE) or in any case (TRUE).
RECURSIVE SortedObjects(_, _, _)
SortedObjects(e, v, always) ==
    CASE e.t = "arr" ->
            /\ v.t = "arr" /\ Len(v.items) = Len(e.items)
            /\ \A i \in 1..Len(e.items) : SortedObjects(e.items[i], v.items[i], always)
      [] e.t = "obj" ->
            /\ v.t = "obj" /\ Len(v.fields) = Len(e.fields)
            /\ KeysAscend(v, always \/ DistinctKeys(e.fields))
            /\ \E p \in Orders(Len(e.fields)) :
                  \A i \in 1..Len(e.fields) :
                     /\ v.fields[i].key.s = e.fields[p[i]].key
                     /\ SortedObjects(e.fields[p[i]].value, v.fields[i].value, always)
      [] OTHER -> TRUE

\* C7 (as amended): for every object node in the record of every completed
\* document, the keys of its fields in stored order are non-decreasing under
\* lexicographic byte comparison, and strictly ascending when the source
\* object has no duplicate key (an empty key included); a key that occurs
\* twice in the source is stored twice, in adjacent fields.
C7_KeysNonDecreasing == Completed => SortedObjects(LastDoc, LastRecord(0).root, FALSE)

\* C7 as stated: the stored keys of every object are strictly ascending, also
\* when the source has duplicate keys.
C7_KeysStrictlyAscending == Completed => SortedObjects(LastDoc, LastRecord(0).root, TRUE)

\* An object with the key "a" twice, once with an unsorted object as value,
\* has been transcoded: both fields are stored, and the inner object's keys
\* were put in order.
C7_Witness ==
    /\ Completed
    /\ LastDoc = JObj(<<Fld(S_a, JObj(<<Fld(S_b, JInt(1)), Fld(S_a, JInt(2))>>)),
                        Fld(S_a, JInt(3))>>)
    /\ LastRecord(0).root.t = "obj"
    /\ Len(LastRecord(0).root.fields) = 2
    /\ LastRecord(0).root.fields[1].key.s = S_a
    /\ LastRecord(0).root.fields[2].key.s = S_a
    /\ \E i \in 1..2 :
          /\ LastRecord(0).root.fields[i].value.t = "obj"
          /\ LastRecord(0).root.fields[i].value.fields[1].key.s = S_a
          /\ LastRecord(0).root.fields[i].value.fields[2].key.s = S_b

-----------------------------------------------------------------------------
(* C8: stability of the sort of an object's fields. *)

\* The order p of the fields fs is the one a stable sort by key gives: keys
\* ascend, and fields with equal keys keep their source order.
StableOrder(fs, p) ==
    \A i, j \in 1..Len(fs) :
        i < j => \/ LexLess(fs[p[i]].key, fs[p[j]].key)
                 \/ fs[p[i]].key = fs[p[j]].key /\ p[i] < p[j]

\* The value v read from an archive is the element e with every object's
\* fields, each key with its own value, in stably sorted order.
RECURSIVE MatchesStably(_, _)
MatchesStably(e, v) ==
    CASE e.t = "arr" ->
            /\ v.t = "arr" /\ Len(v.items) = Len(e.items)
            /\ \A i \in 1..Len(e.items) : MatchesStably(e.items[i], v.items[i])
      [] e.t = "obj" ->
            /\ v.t = "obj" /\ Len(v.fields) = Len(e.fields)
            /\ \E p \in Orders(Len(e.fields)) :
                  /\ StableOrder(e.fields, p)
                  /\ \A i \in 1..Len(e.fields) :
                        /\ v.fields[i].key.s = e.fields[p[i]].key
                        /\ MatchesStably(e.fields[p[i]].value, v.fields[i].value)
      [] OTHER -> Matches(e, v)

\* C8: in the record of every completed document, the fields of each object
\* are stored in stably sorted order: fields with equal keys keep their
\* relative input order, and every key is stored with its own value.
C8_SortStable == Completed => MatchesStably(LastDoc, LastRecord(0).root)

-----------------------------------------------------------------------------
(* C9: tape lengths. *)

\* The children of a composite read from an archive.
ChildrenOf(v) ==
    IF v.t = "arr" THEN v.items
    ELSE IF v.t = "obj" THEN [i \in 1..Len(v.fields) |-> v.fields[i].value]
    ELSE <<>>

\* The tape length a node carries: the stored one for an array or object, 1
\* for a scalar and for a string.
TapeOf(v) ==
    IF v.t \in {"arr", "obj"}
    THEN (IF v.tape[4] < 128 THEN Val32(v.tape) ELSE -1)
    ELSE 1

\* The number of nodes in the subtree of v, v included.
RECURSIVE NodeCount(_)
NodeCount(v) == 1 + SumSeq([i \in 1..Len(ChildrenOf(v)) |-> NodeCount(ChildrenOf(v)[i])])

\* Every array and object node in v stores 1 plus the sum of the tape
\* lengths of its direct children, which is the size of its subtree.
RECURSIVE TapesRight(_)
TapesRight(v) ==
    /\ v.t # "invalid"
    /\ v.t \in {"arr", "obj"} =>
          /\ TapeOf(v) = 1 + SumSeq([i \in 1..Len(ChildrenOf(v)) |-> TapeOf(ChildrenOf(v)[i])])
          /\ TapeOf(v) = NodeCount(v)
          /\ \A i \in 1..Len(ChildrenOf(v)) : TapesRight(ChildrenOf(v)[i])

\* C9: for every array or object node in the record of every completed
\* document, the tape length stored in w1.hi is the number of nodes of its
\* subtree, itself included: 1 plus the sum of the tape lengths of its direct
\* children, a scalar or string counting 1 and an empty composite storing 1.
C9_TapeLength == Completed => TapesRight(LastRecord(0).root)

\* Arrays nested three deep beside a long string: the root stores 5, the
\* array inside it 3, the innermost 2.
C9_Witness ==
    /\ Completed
    /\ LastDoc = JArr(<<JArr(<<JArr(<<JInt(1)>>)>>), JStr(S_9j)>>)
    /\ TapeOf(LastRecord(0).root) = 5
    /\ TapeOf(LastRecord(0).root.items[1]) = 3
    /\ TapeOf(LastRecord(0).root.items[1].items[1]) = 2
    /\ TapeOf(LastRecord(0).root.items[2]) = 1

-----------------------------------------------------------------------------
(* C10: inline and indirect strings are told apart. *)

\* The two patterns of a descriptor's first byte.
InlinePattern(b0)   == b0 < 128 \/ b0 >= 194
IndirectPattern(b0) == 128 <= b0 /\ b0 < 192

\* The descriptor r read from an archive is that of the source string str:
\* inline exactly when str is shorter than 9 bytes, of the pattern of its
\* form and not of the other, classified by is_indirect_str accordingly, and
\* decoding to str.
StringForm(str, r) ==
    /\ r.s = str
    /\ Len(str) < 9 => InlinePattern(r.b0) /\ ~IndirectPattern(r.b0) /\ ~r.ind
    /\ Len(str) >= 9 => IndirectPattern(r.b0) /\ ~InlinePattern(r.b0) /\ r.ind

\* Every string and key of v, read from the record of element e, has the
\* form its length prescribes.
RECURSIVE StringForms(_, _)
StringForms(e, v) ==
    CASE e.t = "str" -> v.t = "str" /\ StringForm(e.s, v.str)
      [] e.t = "arr" ->
            /\ v.t = "arr" /\ Len(v.items) = Len(e.items)
            /\ \A i \in 1..Len(e.items) : StringForms(e.items[i], v.items[i])
      [] e.t = "obj" ->
            /\ v.t = "obj" /\ Len(v.fields) = Len(e.fields)
            /\ \E p \in Orders(Len(e.fields)) :
                  \A i \in 1..Len(e.fields) :
                     /\ StringForm(e.fields[p[i]].key, v.fields[i].key)
                     /\ StringForms(e.fields[p[i]].value, v.fields[i].value)
      [] OTHER -> v.t # "invalid"

\* C10: in the record of every completed document, every string value and
\* every object key shorter than 9 bytes (the empty string included) is stored
\* inline and every one of 9 bytes or more indirect; the first byte of each
\* descriptor is either < 0x80 or >= 0xC2 (inline) or of the pattern 10xxxxxx
\* (indirect), never both, and is_indirect_str classifies it accordingly.
C10_StringForms == Completed => StringForms(LastDoc, LastRecord(0).root)

\* An object with a key of 9 bytes and a key of 8 bytes: the shorter is stored
\* inline (first byte 'a'), the longer indirect (first byte 0x89).
C10_Witness ==
    /\ Completed
    /\ LastDoc = JObj(<<Fld(S_9, JInt(1)), Fld(S_8, JInt(2))>>)
    /\ LastRecord(0).root.t = "obj"
    /\ LastRecord(0).root.fields[1].key.s = S_8
    /\ ~LastRecord(0).root.fields[1].key.ind
    /\ LastRecord(0).root.fields[1].key.b0 = 97
    /\ LastRecord(0).root.fields[2].key.s = S_9
    /\ LastRecord(0).root.fields[2].key.ind
    /\ LastRecord(0).root.fields[2].key.b0 = 137

-----------------------------------------------------------------------------
(* C11: the layout of an inline string node. *)

\* The 16 bytes of the node of an inline string str whose last four bytes are
\* tail: the tag, three zero bytes, the string from byte 4, 0xFF up to and
\* including byte 11, and tail in bytes 12..15.
InlineLayout(str, tail) ==
    <<8, 0, 0, 0>> \o str \o Fill(8 - Len(str), 255) \o Fill(4, tail)

\* Every node of v that holds a source string shorter than 9 bytes has the
\* inline layout with the given tail.
RECURSIVE InlineNodes(_, _, _)
InlineNodes(e, v, tail) ==
    CASE e.t = "str" ->
            /\ v.t = "str"
            /\ Len(e.s) < 9 => Slice(data, v.str.at - 4 + 1, 16) = InlineLayout(e.s, tail)
      [] e.t = "arr" ->
            /\ v.t = "arr" /\ Len(v.items) = Len(e.items)
            /\ \A i \in 1..Len(e.items) : InlineNodes(e.items[i], v.items[i], tail)
      [] e.t = "obj" ->
            /\ v.t = "obj" /\ Len(v.fields) = Len(e.fields)
            /\ \E p \in Orders(Len(e.fields)) :
                  \A i \in 1..Len(e.fields) :
                     /\ v.fields[i].key.s = e.fields[p[i]].key
                     /\ InlineNodes(e.fields[p[i]].value, v.fields[i].value, tail)
      [] OTHER -> v.t # "invalid"

\* The record of the input "hi" followed by a newline: header (5, 16) and the
\* node with the given tail.
HiRecord(tail) == U32(5) \o U32(16) \o InlineLayout(S_hi, tail)

InlineNodesWithTail(tail) ==
    Completed =>
        /\ InlineNodes(LastDoc, LastRecord(0).root, tail)
        /\ (LastDoc = JStr(S_hi) /\ docIdx = 1) =>
              Slice(data, startLen - 8 + 1, Len(data) - startLen + 8) = HiRecord(tail)

\* C11 (as amended): the node of a string value of n < 9 bytes is tag 0x08 at
\* byte 0, zero at bytes 1..3, the n string bytes from byte 4, 0xFF in the
\* remaining bytes up to and including byte 11, and zero in bytes 12..15; the
\* record of "hi" and a newline is header (5, 16) and the body 08 00 00 00 68
\* 69, six FF bytes and four zero bytes.
C11_InlineLayout == InlineNodesWithTail(0)

\* C11 as stated: 0xFF in every remaining byte up to and including byte 15.
C11_InlineLayoutAllFF == InlineNodesWithTail(255)

\* "hi" has been transcoded into an empty buffer: 24 bytes, the last four zero.
C11_Witness ==
    /\ Completed /\ LastDoc = JStr(S_hi) /\ initLen = 0
    /\ data = <<5, 0, 0, 0, 16, 0, 0, 0, 8, 0, 0, 0, 104, 105,
                255, 255, 255, 255, 255, 255, 0, 0, 0, 0>>

-----------------------------------------------------------------------------
(* C12: alignment and zero padding. *)

\* The positions at which the nodes, fields and child regions of v begin.
RECURSIVE StartsOf(_)
StartsOf(v) ==
    CASE v.t = "str" -> {v.str.at - 4}
      [] v.t = "arr" ->
            {v.at, v.P} \cup {v.P + 16 * (i - 1) : i \in 1..Len(v.items)}
              \cup UNION {StartsOf(v.items[i]) : i \in 1..Len(v.items)}
      [] v.t = "obj" ->
            {v.at, v.P} \cup {v.P + 24 * (i - 1) : i \in 1..Len(v.fields)}
              \cup UNION {StartsOf(v.fields[i].value) : i \in 1..Len(v.fields)}
      [] v.t = "invalid" -> {-1}
      [] OTHER -> {}

\* The positions of the bytes of a record that belong to a child region, to
\* a string payload or to the root node.
CoveredBy(rec, end) ==
    (end - 16)..(end - 1) \cup UNION {r.P..(r.P + r.n - 1) : r \in RefsOf(rec.root)}

\* C12: in a call whose output buffer started at a length that is a multiple
\* of 8, the header and the body of every completed record, and every child
\* region, node and field in it, begin at a multiple of 8, and every byte of
\* the body outside the regions, string payloads and root node (the padding)
\* is zero.
C12_Aligned ==
    (Completed /\ initLen % 8 = 0) =>
        LET rec == LastRecord(0)
        IN  /\ (rec.body - 8) % 8 = 0 /\ rec.body % 8 = 0 /\ Len(data) % 8 = 0
            /\ rec.root.t # "invalid"
            /\ \A a \in StartsOf(rec.root) : a >= rec.body /\ a % 8 = 0
            /\ \A b \in (rec.body..(Len(data) - 1)) \ CoveredBy(rec, Len(data)) :
                  data[b + 1] = 0

\* An array of an integer and a 9-byte string in an empty buffer: the string
\* occupies 8..16, seven zero bytes pad to 24, where the array's region begins.
C12_Witness ==
    /\ Completed /\ initLen = 0
    /\ LastDoc = JArr(<<JInt(1), JStr(S_9)>>)
    /\ LastRecord(0).root.t = "arr" /\ LastRecord(0).root.P = 24
    /\ 17..23 = (8..(Len(data) - 1)) \ CoveredBy(LastRecord(0), Len(data))
    /\ Slice(data, 18, 7) = Fill(7, 0)

-----------------------------------------------------------------------------
(* C13: record framing. *)

\* The body length a header's high half holds, -1 if it is out of range.
BodyLen(d, H) ==
    IF InRange(d, H, 8) /\ d[H + 8] < 128 /\ InRange(d, H + 8, Val32(Slice(d, H + 5, 4)))
    THEN Val32(Slice(d, H + 5, 4))
    ELSE -1

\* The position reached from H by stepping over k records, each as long as
\* its header says; -1 if there are no k such records.
RECURSIVE Chain(_, _, _)
Chain(d, H, k) ==
    IF k = 0 \/ H < 0 THEN H
    ELSE IF BodyLen(d, H) < 0 THEN -1
    ELSE Chain(d, H + 8 + BodyLen(d, H), k - 1)

\* The document whose record is being written has no header yet.
InDocument == pc \in {"walk", "root", "step"} \/ (pc = "error" /\ err # "TrailingGarbage")

\* C13: the records of the documents completed so far follow one another from
\* the output's initial length, each header holding (current_index past its
\* document, body length), each body a multiple of 8 and at least 16 bytes
\* long and ending with its document's root node, the last one ending at the
\* end of the buffer; the header of a document that is being transcoded, or
\* whose newline check or transcoding failed, holds only the zero placeholder
\* and stands where the previous record ended.
C13_Framing ==
    /\ (pc = "loop" \/ InDocument) =>
          \A j \in 1..docIdx :
             LET H   == Chain(data, initLen, j - 1)
                 rec == ReadRecord(data, H, 0)
             IN  /\ H >= 0
                 /\ rec.lo = U32(current_index(input, j))
                 /\ BodyLen(data, H) >= 16 /\ BodyLen(data, H) % 8 = 0
                 /\ Matches(input.docs[j], rec.root)
    /\ Completed =>
          /\ Chain(data, initLen, docIdx - 1) = startLen - 8
          /\ Chain(data, initLen, docIdx) = Len(data)
          /\ LastRecord(0).hi = U32(Len(data) - startLen)
    /\ InDocument =>
          /\ Chain(data, initLen, docIdx) = startLen - 8
          /\ Slice(data, startLen - 8 + 1, 8) = Zero8

\* Two documents transcoded into an empty buffer without capacity, which grew
\* on the way: headers (12, 32) at 0 and (28, 64) at 40, 112 bytes in all.
C13_Witness ==
    /\ Completed /\ docIdx = 2 /\ initLen = 0 /\ cap < 16 * Room
    /\ input.docs = <<JStr(S_9), JArr(<<JInt(1), JStr(S_9)>>)>>
    /\ Slice(data, 1, 8) = U32(12) \o U32(32)
    /\ Slice(data, 41, 8) = U32(28) \o U32(64)
    /\ Len(data) = 112

-----------------------------------------------------------------------------
(* C14: CompositeTooLarge. *)

\* Some array or object of element e has n or more children.
RECURSIVE HasCompositeOf(_, _)
HasCompositeOf(e, n) ==
    CASE e.t \in {"bigarr", "bigobj"} -> e.size >= n
      [] e.t = "arr" ->
            Len(e.items) >= n \/ \E i \in 1..Len(e.items) : HasCompositeOf(e.items[i], n)
      [] e.t = "obj" ->
            Len(e.fields) >= n
              \/ \E i \in 1..Len(e.fields) : HasCompositeOf(e.fields[i].value, n)
      [] OTHER -> FALSE

\* C14: transcode fails with CompositeTooLarge only on a document in which
\* some array or object has 2^24 (= 0xFFFFFF + 1) or more children; a
\* document whose composites all have at most 0xFFFFFF children is accepted.
C14_TooLargeFrom2Pow24 ==
    (pc = "error" /\ err = "CompositeTooLarge") =>
        HasCompositeOf(input.docs[docIdx + 1], TooLarge + 1)

-----------------------------------------------------------------------------
(* C15: TrailingGarbage. *)

\* The input bytes after the last complete document.
Remaining(in) == InputSize(in) - EndOf(in, Len(in.docs))

\* The tokenizer reports the stream as truncated (truncated_bytes() # 0), or
\* as not truncated (truncated_bytes() = 0); for the empty input, whose
\* value is indeterminate, neither.
Truncated(in)    == Zero8 \notin truncated_bytes(in)
NotTruncated(in) == \A t \in truncated_bytes(in) : t = Zero8

\* C15 (as amended): transcode and parse raise TrailingGarbage exactly when
\* all documents have been processed, the tokenizer reports
\* truncated_bytes() # 0 (bytes of an incomplete document remain after the
\* last complete one) and the input is not empty; otherwise a call that
\* processed all documents returns normally.  The documents processed
\* include the last one, whose newline check is on the last byte of the
\* input.  It is never raised for an empty input.  This holds for a call of
\* either entry point.
C15_TrailingGarbageWhenTruncated ==
    /\ entry \in {"transcode", "parse"}
    /\ (pc = "error" /\ err = "TrailingGarbage") =>
          /\ docIdx = Len(input.docs)
          /\ InputSize(input) # 0
          /\ Truncated(input) /\ Remaining(input) > 0
          /\ \A k \in 1..Len(input.docs) : SepOf(input, k) = NL
    /\ pc = "done" =>
          /\ docIdx = Len(input.docs)
          /\ InputSize(input) = 0 \/ NotTruncated(input)

\* C15 as stated: TrailingGarbage is raised exactly when bytes remain after
\* the last complete document and truncated_bytes() = 0.
C15_TrailingGarbageWhenNotTruncated ==
    /\ (pc = "error" /\ err = "TrailingGarbage") =>
          Remaining(input) > 0 /\ NotTruncated(input)
    /\ pc = "done" => ~(Remaining(input) > 0 /\ NotTruncated(input))

\* parse on one complete document followed by three bytes of an incomplete
\* one: the document was delivered to the sink, then the error.
C15_Witness ==
    /\ entry = "parse"
    /\ pc = "error" /\ err = "TrailingGarbage"
    /\ input.docs = <<JBool(TRUE)>> /\ input.tail = <<91, 49, 10>>
    /\ docIdx = 1 /\ Len(sink) = 1

\* The same input given to transcode: the record was written and its length
\* given to the output, then the error.
C15_TranscodeCase ==
    /\ entry = "transcode"
    /\ pc = "error" /\ err = "TrailingGarbage"
    /\ input.docs = <<JBool(TRUE)>> /\ input.tail = <<91, 49, 10>>
    /\ docIdx = 1 /\ ffiLen = Len(data) /\ Len(data) = initLen + 24

\* The empty input: the value reported is indeterminate and the call returns.
C15_EmptyInputCase ==
    /\ pc = "done" /\ InputSize(input) = 0
    /\ ~Truncated(input) /\ ~NotTruncated(input)

-----------------------------------------------------------------------------
(* C16: scratch buffers on the exit paths. *)

\* C16: after a transcode call that failed, the Parser's pool holds at least
\* the buffers it held before the call: every frame that exited, normally or
\* by the error, put its scratch buffer back.
C16_PoolKeptOnError == pc = "error" => Len(parserPool) >= initPool

-----------------------------------------------------------------------------
(* C17: the appended bytes are a function of the input. *)

\* The call on the same input by the same build, with a new Parser and an
\* empty output buffer whose capacity never has to grow.
Reference ==
    Start(input, [data |-> <<>>, cap |-> 16 * Room, pool |-> <<>>], ties)

\* A source object with two fields of one key, or with a key before a
\* smaller one, somewhere in element e.
RECURSIVE NeedsSort(_)
NeedsSort(e) ==
    CASE e.t = "arr" -> \E i \in 1..Len(e.items) : NeedsSort(e.items[i])
      [] e.t = "obj" ->
            \/ \E i \in 1..(Len(e.fields) - 1) :
                  LexLeq(e.fields[i + 1].key, e.fields[i].key)
            \/ \E i \in 1..Len(e.fields) : NeedsSort(e.fields[i].value)
      [] OTHER -> FALSE

\* C17: a transcode call that has ended, whatever the length of the output
\* and its capacity at the call, whenever the buffer grew and whatever the
\* Parser's pool held, ended as the reference call on its input ends, and
\* if it returned normally it appended the same bytes.
C17_Deterministic ==
    pc \in {"done", "error"} =>
        \A u \in Outcomes(Reference) :
            /\ u.pc = pc
            /\ u.err = err
            /\ pc = "done" => Appended(u) = Appended(St)

\* A call that began with 8 bytes in the output and a used scratch buffer in
\* the pool has transcoded an object whose fields had to be sorted, two of
\* them with one key, and appended what the reference call appends.
C17_Witness ==
    /\ pc = "done"
    /\ initLen = 8
    /\ initPool = 1
    /\ \E k \in 1..Len(input.docs) :
          /\ input.docs[k].t = "obj"
          /\ ~DistinctKeys(input.docs[k].fields)
          /\ NeedsSort(input.docs[k])
    /\ \E u \in Outcomes(Reference) : Appended(u) = Appended(St) /\ Appended(u) # <<>>

-----------------------------------------------------------------------------
(* C18: what parse hands to the sink, and when. *)

\* The heap tree v is the complete tree of element e: every value set, every
\* key with its own value, the keys of each object in order, and the tape
\* length of each array and object the number of nodes below and with it.
RECURSIVE HeapBuilt(_, _)
HeapBuilt(e, v) ==
    CASE e.t = "arr" ->
            /\ v.t = "arr" /\ Len(v.items) = Len(e.items)
            /\ \A i \in 1..Len(e.items) : HeapBuilt(e.items[i], v.items[i])
            /\ v.tape = NodeCount(v)
      [] e.t = "obj" ->
            /\ v.t = "obj" /\ Len(v.fields) = Len(e.fields)
            /\ \A i \in 1..(Len(v.fields) - 1) :
                  LexLeq(v.fields[i].key, v.fields[i + 1].key)
            /\ \E p \in Orders(Len(e.fields)) :
                  \A i \in 1..Len(e.fields) :
                     /\ v.fields[i].key = e.fields[p[i]].key
                     /\ HeapBuilt(e.fields[p[i]].value, v.fields[i].value)
            /\ v.tape = NodeCount(v)
      [] e.t \in {"bigarr", "bigobj", "bad"} -> FALSE
      [] OTHER -> v = e

\* Element e holds an array or object that parse_node rejects.
RECURSIVE Rejected(_)
Rejected(e) ==
    CASE e.t = "arr" -> \E i \in 1..Len(e.items) : Rejected(e.items[i])
      [] e.t = "obj" -> \E i \in 1..Len(e.fields) : Rejected(e.fields[i].value)
      [] e.t \in {"bigarr", "bigobj"} -> e.size >= TooLarge
      [] OTHER -> FALSE

\* Document k of the input fails as the claim has it: the tokenizer rejects
\* it, it holds a composite that is too large, or no newline follows it.
Fails(in, k) ==
    in.docs[k].t = "bad" \/ Rejected(in.docs[k]) \/ in.badSep = k

\* Parse throws at document k: as above, where the newline check is on the
\* byte before current_index (past the last complete document, the last byte
\* of the input), and a rejection in the tokenizer's stage 1 anywhere in the
\* input is raised at the first document.
ThrowsAt(in, k) ==
    \/ k = 1 /\ RejectedInStage1(in)
    \/ in.docs[k].t = "bad" \/ Rejected(in.docs[k]) \/ SepOf(in, k) # NL

\* The sink holds one record for each of the first documents of the input,
\* in input order, none of them failing (by Failing) or after a failing one,
\* each with the complete tree and the end offset of its document; all the
\* documents when parse has not failed on one; and when it has, the
\* documents before the failing one.
SinkRight(Failing(_, _)) ==
    /\ Len(sink) <= Len(input.docs)
    /\ \A k \in 1..Len(sink) :
          /\ \A j \in 1..k : ~Failing(input, j)
          /\ HeapBuilt(input.docs[k], sink[k].root)
          /\ sink[k].end = inOffset + current_index(input, k)
    /\ pc = "done" \/ (pc = "error" /\ err = "TrailingGarbage")
          => Len(sink) = Len(input.docs)
    /\ pc = "error" /\ err # "TrailingGarbage"
          => /\ Len(sink) < Len(input.docs)
             /\ Failing(input, Len(sink) + 1)

\* The sink changes only by complete adding the record of the next document,
\* once its parse_node calls have all returned.
SinkGrows ==
    sink' # sink =>
        /\ pc = "step" /\ heap = <<>>
        /\ Len(sink) = docIdx
        /\ docIdx' = docIdx + 1
        /\ SubSeq(sink', 1, Len(sink)) = sink
        /\ Len(sink') = Len(sink) + 1

\* C18: parse calls complete exactly once for each document, in input order,
\* after the document's tree is built and its newline is checked, with
\* offset + current_index as the end offset; when a document fails, neither
\* it nor a later one is handed to the sink and the earlier records remain.
C18_SinkOrdering == []SinkRight(Fails) /\ [][SinkGrows]_vars

\* C18 (as amended): the same, where parse fails at the first document when
\* the tokenizer rejects the input in stage 1 (no record is made, whichever
\* document holds the rejected text), and fails at the last complete
\* document when a truncated tail does not end in a newline.
C18_SinkOrderingFromFirstThrow == []SinkRight(ThrowsAt) /\ [][SinkGrows]_vars

\* parse, called with a non-zero offset on two documents of which the second
\* lacks its newline, has failed: the sink holds the first document's record.
C18_Witness ==
    /\ pc = "error" /\ err = "MalformedFraming"
    /\ inOffset # 0
    /\ Len(input.docs) = 2 /\ input.badSep = 2
    /\ input.docs[1].t = "obj"
    /\ Len(sink) = 1
    /\ sink[1].root.t = "obj"
    /\ sink[1].end = inOffset + TextLen(input.docs[1]) + 1

-----------------------------------------------------------------------------
(* C19: the length of the buffer after its operations. *)

\* C19: in every state of a transcode call that began at an 8-aligned length,
\* after every pad and after every extend whose payload size is a multiple of
\* 8 (a header, a node region, a 16-byte long string) the length of the
\* buffer was a multiple of 8.
C19_AlignedAfterOps ==
    \A i \in 1..Len(ops) :
        ops[i].op = "pad" \/ ops[i].n % 8 = 0 => ops[i].len % 8 = 0

\* C19 (as amended): after every pad and after every extend of elements
\* whose size is a multiple of 8 (the header word, nodes, fields) the length
\* of the buffer was a multiple of 8; the payload of a long string or key is
\* appended without padding, whatever its size.
C19_AlignedAfterPadAndWords ==
    \A i \in 1..Len(ops) :
        ops[i].op = "pad" \/ ops[i].size % 8 = 0 => ops[i].len % 8 = 0

\* A call has ended in which a 16-byte string was appended after a 9-byte
\* one and left the length unaligned, and a later pad added zeros and made
\* it a multiple of 8 for the region that followed.
C19_Witness ==
    /\ pc = "done"
    /\ \E i \in 1..Len(ops) :
          /\ ops[i].op = "extend" /\ ops[i].size = 1 /\ ops[i].n = 16
          /\ ops[i].len % 8 # 0
          /\ \E j \in (i + 1)..(Len(ops) - 1) :
                /\ ops[j].op = "pad" /\ ops[j].n > 0 /\ ops[j].len % 8 = 0
                /\ ops[j + 1].op = "extend" /\ ops[j + 1].size = 16
                /\ ops[j + 1].len % 8 = 0

-----------------------------------------------------------------------------
(* C20: the scratch vectors of a call. *)

\* The ids of the idle vectors (in buf.pool or in the Parser's pool) and of
\* the vectors held by the active calls of transcode_array/_object.
IdleIds == [i \in 1..(Len(parserPool) + Len(bufPool)) |->
              IF i <= Len(parserPool) THEN parserPool[i].id
              ELSE bufPool[i - Len(parserPool)].id]

HeldIds == [i \in 1..Len(stack) |-> stack[i].vec]

\* No value occurs twice in the sequence q.
NoRepeat(q) == \A i, j \in 1..Len(q) : i # j => q[i] # q[j]

\* C20: in a transcode call that has not failed, no scratch vector is both
\* idle and held, or held by two active frames; the idle and held vectors
\* number max(pool size at the call, deepest nesting so far); and when the
\* call has returned they are all idle in the Parser's pool.
C20_PoolDiscipline ==
    pc # "error" =>
        /\ NoRepeat(IdleIds \o HeldIds)
        /\ Len(IdleIds) + Len(HeldIds) = Max(initPool, deepest)
        /\ deepest >= Len(stack)
        /\ pc = "done" => /\ stack = <<>> /\ bufPool = <<>>
                          /\ Len(parserPool) = Max(initPool, deepest)

\* A call that began with one vector in the pool and transcoded arrays
\* nested three deep has returned: the Parser's pool holds three vectors.
C20_Witness ==
    /\ pc = "done"
    /\ initPool = 1
    /\ deepest = 3
    /\ Len(parserPool) = 3
    /\ NoRepeat(IdleIds)
    /\ stack = <<>>

====
